---- MODULE Spec2Model ----
(***************************************************************************)
(* Verification model of the veggibuddy-client rendering core: the         *)
(* deferred render scheduler (Renderer), the GPU resource wrappers         *)
(* (Texture, Sampler, ShaderModule, Pipeline, BindGroup, BindGroupLayout,  *)
(* StructedView, VerticesView), the asynchronous texture destruction       *)
(* queue and the animation-frame loop.                                     *)
(*                                                                         *)
(* JavaScript values are encoded as follows.  An optional value (T | null, *)
(* T | undefined, an absent property) is a sequence of length 0 or 1.  A   *)
(* wrapper object is identified by its label.  A GPUTexture handle is a    *)
(* positive number, 0 standing for null.  A promise of a texture's task    *)
(* chain is the sequence of the tasks chained so far (its identity).       *)
(***************************************************************************)
EXTENDS Integers, Sequences, FiniteSets, TLC

VARIABLES
    configuringStack,   \* Renderer.configuringStack
    passQueue,          \* Renderer.passQueue
    loop,               \* Renderer.loop: is a frame closure installed
    loopId,             \* Renderer.loopId: 0 for null
    rafPending,         \* animation-frame requests not yet fired or cancelled
    pc,                 \* position of the running frame closure: 0 when none runs
    frameTrace,         \* statements the running/last frame closure has executed
    lastCall,           \* the last API call and its outcome
    accepted,           \* the draw() calls accepted since the last flush, and their passes
    beginSeq,           \* number of beginPass() calls since the last flush
    endOrder,           \* the passes ended since the last flush, in endPass() order
    gpuSampler,         \* Sampler.gpuSampler per sampler
    gpuShaderModule,    \* ShaderModule.gpuShaderModule per module
    renderPipeline,     \* Pipeline.renderPipeline per pipeline
    bglLayout,          \* BindGroupLayout.layout per layout
    gpuBindGroup,       \* BindGroup.gpuBindGroup per bind group
    viewGpu,            \* StructedView.gpu / VerticesView.gpu per view
    registeredViews,    \* VertexArray.registeredViews: keys with a cached layout
    tex,                \* the Texture2D wrappers
    destructionQueue,   \* Texture.destructionQueue
    destroyWaiters,     \* pending continuations of destroyGPUTextureAfterPromise
    gpuQueue,           \* GPU operations submitted and not yet completed
    taskState,          \* the task promises handed to the textures
    nextHandle,         \* handles created so far
    destroyed,          \* handles whose GPUTexture.destroy() has run
    registered,         \* every task setCurrentGPUTask has chained, with its handle
    gpuTextures,        \* the GPUTexture objects by handle: size created with, data written
    loaderCalls,        \* invocations of the lazy loader a texture now has
    invalidated,        \* handles held when unload/setSource/setSize was called
    structInput,        \* the arguments of new BufferedStruct
    bstruct,            \* the BufferedStruct once constructed: the Struct and its view
    scratch,            \* a StructedView values are appended to, the caller's offset, the calls
    floatInput,         \* the number handed to the normalized writers, in units of 1/Grid
    verticesBuffer,     \* VerticesView.buffer: its bytes, each 0..255
    vaInput,            \* the arguments of new VertexArray
    vertexArray,        \* the VertexArray once constructed
    registry,           \* registeredSamplers, registeredVertexArrays, registeredLayouts
    gestureTarget,      \* a GestureTarget: pointers, alivePointerCount, gesture
    earlyFree           \* handles destroyed while an earlier operation used them

vars == <<configuringStack, passQueue, loop, loopId, rafPending, pc, frameTrace,
          lastCall, accepted, beginSeq, endOrder, gpuSampler, gpuShaderModule, renderPipeline,
          bglLayout, gpuBindGroup, viewGpu, registeredViews, tex,
          destructionQueue, destroyWaiters, gpuQueue, taskState, nextHandle,
          destroyed, registered, gpuTextures, loaderCalls, invalidated,
          structInput, bstruct, scratch, floatInput, verticesBuffer,
          vaInput, vertexArray, registry, gestureTarget, earlyFree>>

rendererVars == <<configuringStack, passQueue, accepted, beginSeq, endOrder>>
loopVars == <<loop, loopId, rafPending, pc, frameTrace>>
worldVars == <<gpuSampler, gpuShaderModule, renderPipeline, bglLayout, gpuBindGroup,
              viewGpu, registeredViews, tex, destructionQueue, destroyWaiters,
              gpuQueue, taskState, nextHandle, destroyed, registered,
              gpuTextures, loaderCalls, invalidated, structInput, bstruct, scratch,
              floatInput, verticesBuffer, vaInput, vertexArray, registry, gestureTarget>>

----------------------------------------------------------------------------
(* Encoding helpers *)

None == <<>>
Some(x) == <<x>>
IsSome(o) == Len(o) > 0
Null == "null"
OK == "ok"

Max(S) == CHOOSE x \in S : \A y \in S : y <= x
Range(s) == {s[i] : i \in 1..Len(s)}

\* array?.[i] of an optional array with null elements: Null when absent
\* sequential composition: the outcome of a statement, evaluated once, is
\* handed to the statements that follow it
Then(v, F(_)) == CHOOSE r \in {F(x) : x \in {v}} : TRUE

At(optArray, i) ==
    IF IsSome(optArray) /\ i + 1 <= Len(optArray[1]) THEN optArray[1][i + 1] ELSE Null

----------------------------------------------------------------------------
(* Bounds of the model *)

MaxPasses == 2      \* passes alive at once (configuring + queued)
MaxDraws == 2       \* draw() calls accepted between two flushes
MaxHandles == 2     \* GPUTexture handles created in a run
MaxTasks == 2       \* task promises handed to getGPUTextureView by the caller
MaxGpuOps == 2      \* GPU operations in flight
MaxPending == 2     \* animation-frame requests pending at once
MaxChain == 2       \* tasks chained behind one handle
MaxLoads == 2       \* load() calls awaiting their loader, and calls of one loader
MaxFields == 2      \* fields of a generated struct descriptor
MaxAppends == 2     \* chained append() calls on one view
MaxStart == 5       \* the offset the first append() is given
ScratchBytes == 256 \* byte length of the view values are appended to
Grid == 200         \* the numbers handed to the normalized writers are k / Grid
MaxIndices == 2     \* indices handed to new VertexArray
MaxAttributes == 2  \* properties of a generated vertex descriptor
MaxWrappers == 2    \* wrapper objects made for the named registries
MaxObjects == 3     \* layouts and Vectors made for one VertexArray after its construction

----------------------------------------------------------------------------
(* The devices, and the device of the render context *)

Devices == {"devA", "devB"}
device == "devA"
UINT16_MAX == 65535
BYTES_PER_ELEMENT == 4  \* of Float32Array, Int32Array and Uint32Array
NaN == -1               \* the JavaScript number NaN

----------------------------------------------------------------------------
(* The wrapper objects the application has constructed.  Their descriptors *)
(* are immutable; only their cached device objects are state.              *)

Textures == {"tex"}
\* the descriptor's source: a TextureSource (a canvas), or a function that
\* gives one (lazy: the loader of an image)
SourceInputs == {[lazy |-> FALSE, value |-> "canvas"], [lazy |-> TRUE, value |-> "image"],
                 [lazy |-> FALSE, value |-> "image"]}
Sizes == {[width |-> 1, height |-> 1], [width |-> 2, height |-> 1]}
Samplers == {"linear"}
BindGroupLayouts == {"empty", "layA", "layTex"}
BindGroups == {"bgA", "bgB", "bgTex"}
Pipelines == {"pipeAuto", "pipe2", "pipeTex"}
ShaderModules == Pipelines \X {"vertex", "fragment"}
StructedViews == {<<"viewA", "struct">>, <<"viewB", "struct">>}
VerticesViews == {<<"quadrilateral", "vertices">>, <<"fullscreen-triangle", "vertices">>,
                  <<"tri", "vertices">>, <<"tri", "indices">>,
                  <<"quad", "vertices">>, <<"quad", "indices">>,
                  <<"line", "vertices">>, <<"line", "indices">>}
Views == StructedViews \cup VerticesViews

\* BindGroupLayoutDescriptor.entries of each registered layout
LayoutEntries(l) ==
    CASE l = "empty" -> <<>>
      [] l = "layA" -> <<[key |-> "u", category |-> "buffer"]>>
      [] l = "layTex" -> <<[key |-> "t", category |-> "texture"],
                           [key |-> "s", category |-> "sampler"]>>

\* BindGroupDescriptor of each bind group: its layout and its entry resources
BindGroupDescriptor(b) ==
    CASE b = "bgA" -> [layout |-> "layA", entries |-> <<[key |-> "u", resource |-> <<"viewA", "struct">>]>>]
      [] b = "bgB" -> [layout |-> "layA", entries |-> <<[key |-> "u", resource |-> <<"viewB", "struct">>]>>]
      [] b = "bgTex" -> [layout |-> "layTex",
                         entries |-> <<[key |-> "t", resource |-> "tex"],
                                       [key |-> "s", resource |-> "linear"]>>]

\* PipelineDescriptor.layout of each pipeline: absent, or the layout items
PipelineLayoutOf(p) ==
    CASE p = "pipeAuto" -> None
      [] p = "pipe2" -> Some(<<"layA", "layA">>)
      [] p = "pipeTex" -> Some(<<"layTex">>)

\* a constructor counting two bind-group slots for the "auto" layout
PipelineNewAutoSlots(label, layout) ==
    [label |-> label,
     auto |-> ~IsSome(layout),
     pipelineLayout |-> IF IsSome(layout) THEN layout[1] ELSE <<>>,
     bindGroupCount |-> IF IsSome(layout) THEN Len(layout[1]) ELSE 2]

\* Pipeline.constructor: pipelineLayout = descriptor.layout ?? "auto" and
\* bindGroupCount = 0 for "auto", else the number of layout items
PipelineNew(label, layout) ==
    [label |-> label,
     auto |-> ~IsSome(layout),
     pipelineLayout |-> IF IsSome(layout) THEN layout[1] ELSE <<>>,
     bindGroupCount |-> IF IsSome(layout) THEN Len(layout[1]) ELSE 0]

Pipeline(p) == PipelineNew(p, PipelineLayoutOf(p))

----------------------------------------------------------------------------
(* The mutable state the resource wrappers share, gathered in one record   *)
(* so that an operation can be composed of the calls it makes.  err holds  *)
(* the message of the exception in flight; ret the last returned value.    *)

World ==
    [gpuSampler |-> gpuSampler, gpuShaderModule |-> gpuShaderModule,
     renderPipeline |-> renderPipeline, bglLayout |-> bglLayout,
     gpuBindGroup |-> gpuBindGroup, viewGpu |-> viewGpu,
     registeredViews |-> registeredViews, tex |-> tex,
     destructionQueue |-> destructionQueue, destroyWaiters |-> destroyWaiters,
     gpuQueue |-> gpuQueue, taskState |-> taskState, nextHandle |-> nextHandle,
     destroyed |-> destroyed, registered |-> registered, gpuTextures |-> gpuTextures,
     loaderCalls |-> loaderCalls, invalidated |-> invalidated,
     structInput |-> structInput, bstruct |-> bstruct, scratch |-> scratch,
     floatInput |-> floatInput, verticesBuffer |-> verticesBuffer,
     vaInput |-> vaInput, vertexArray |-> vertexArray, registry |-> registry,
     gestureTarget |-> gestureTarget,
     err |-> OK, ret |-> Null]

Throw(w, message) == [w EXCEPT !.err = message]
Return(w, value) == [w EXCEPT !.ret = value]

DeviceConflictTexture == "Texture is already used by another device."
DeviceConflictBuffer == "GPUBuffer is already created for another device."

\* Sampler.getGPUSampler
GetGPUSampler(w, s, dev) ==
    IF w.err # OK THEN w
    ELSE IF IsSome(w.gpuSampler[s]) THEN Return(w, w.gpuSampler[s][1])
    ELSE LET obj == [label |-> s, device |-> dev]
         IN Return([w EXCEPT !.gpuSampler[s] = Some(obj)], obj)

\* ShaderModule.getGPUShaderModule
GetGPUShaderModule(w, m, dev) ==
    IF w.err # OK THEN w
    ELSE IF IsSome(w.gpuShaderModule[m]) THEN Return(w, w.gpuShaderModule[m][1])
    ELSE LET obj == [label |-> m, device |-> dev]
         IN Return([w EXCEPT !.gpuShaderModule[m] = Some(obj)], obj)

\* BindGroupLayout.getGPUBindGroupLayout (instance method, cached)
GetGPUBindGroupLayout(w, l, dev) ==
    IF w.err # OK THEN w
    ELSE IF IsSome(w.bglLayout[l]) THEN Return(w, w.bglLayout[l][1])
    ELSE LET obj == [label |-> l, device |-> dev, entries |-> Len(LayoutEntries(l))]
         IN Return([w EXCEPT !.bglLayout[l] = Some(obj)], obj)

\* BindGroupLayout.getPipelineLayout: resolve every item, null being the
\* registered empty layout and a string a registered layout
RECURSIVE GetPipelineLayoutFrom(_, _, _, _, _)
GetPipelineLayoutFrom(w, dev, items, i, acc) ==
    IF w.err # OK THEN w
    ELSE IF i > Len(items) THEN Return(w, [device |-> dev, bindGroupLayouts |-> acc])
    ELSE Then(GetGPUBindGroupLayout(w, IF items[i] = Null THEN "empty" ELSE items[i], dev),
              LAMBDA w1 : GetPipelineLayoutFrom(w1, dev, items, i + 1, Append(acc, w1.ret)))

GetPipelineLayout(w, dev, items) == GetPipelineLayoutFrom(w, dev, items, 1, <<>>)

\* getRenderPipeline making a new device object whenever the color
\* targets differ from the ones the cached object was made with
GetRenderPipelinePerTargets(w, p, dev, colorAttachments) ==
    IF w.err # OK THEN w
    ELSE IF IsSome(w.renderPipeline[p]) /\ w.renderPipeline[p][1].targets = colorAttachments
         THEN Return(w, w.renderPipeline[p][1])
    ELSE LET obj == [label |-> p, device |-> dev, targets |-> colorAttachments] IN
         Return([w EXCEPT !.renderPipeline[p] = Some(obj)], obj)

\* Pipeline.getRenderPipeline
GetRenderPipeline(w, p, dev, colorAttachments) ==
    IF w.err # OK THEN w
    ELSE IF IsSome(w.renderPipeline[p]) THEN Return(w, w.renderPipeline[p][1])
    ELSE LET obj == [label |-> p, device |-> dev, targets |-> colorAttachments] IN
         Then(IF Pipeline(p).auto THEN w
              ELSE GetPipelineLayout(w, dev, Pipeline(p).pipelineLayout), LAMBDA w1 :
         Then(GetGPUShaderModule(w1, <<p, "vertex">>, dev), LAMBDA w2 :
         Then(GetGPUShaderModule(w2, <<p, "fragment">>, dev), LAMBDA w3 :
            IF w3.err # OK THEN w3
            ELSE Return([w3 EXCEPT !.renderPipeline[p] = Some(obj)], obj))))

\* StructedView.getGPUBuffer and VerticesView.getGPUBuffer
GetGPUBuffer(w, v, dev) ==
    IF w.err # OK THEN w
    ELSE IF IsSome(w.viewGpu[v])
         THEN IF w.viewGpu[v][1].device = dev THEN Return(w, w.viewGpu[v][1])
              ELSE Throw(w, DeviceConflictBuffer)
    ELSE LET obj == [label |-> v, device |-> dev]
         IN Return([w EXCEPT !.viewGpu[v] = Some(obj)], obj)

----------------------------------------------------------------------------
(* Struct, BufferedStruct and StructedView.  A descriptor is the sequence  *)
(* of its fields in declaration order; a type is a scalar, a vector, a     *)
(* matrix or a nested descriptor.  A JavaScript number is an integer or    *)
(* NaN.  A byte of a buffer names the encoding it is a byte of.            *)

Key(i) == <<"a", "b", "c", "d">>[i]

ScalarType(name) ==
    [kind |-> "scalar", name |-> name, column |-> 0, row |-> 0, fields |-> <<>>]
VectorType(n) ==
    [kind |-> "vector", name |-> "vec", column |-> n, row |-> 0, fields |-> <<>>]
MatrixType(column, row) ==
    [kind |-> "matrix", name |-> "mat", column |-> column, row |-> row, fields |-> <<>>]
NestedType(fields) ==
    [kind |-> "descriptor", name |-> "", column |-> 0, row |-> 0, fields |-> fields]
\* a string that is none of the StructType names
UnknownType(name) ==
    [kind |-> "unknown", name |-> name, column |-> 0, row |-> 0, fields |-> <<>>]

\* the values a field holds
Number(v) == [kind |-> "number", v |-> v]
VectorNew(data) == [kind |-> "Vector", dimension |-> Len(data), data |-> data]
MatrixNew(column, row, data) ==
    [kind |-> "Matrix", column |-> column, row |-> row, data |-> data]
PlainObject(data) == [kind |-> "object", data |-> data]
zeroVector(dimension) == VectorNew([i \in 1..dimension |-> 0])
zeroMatrix(column, row) == MatrixNew(column, row, [i \in 1..column * row |-> 0])

\* arithmetic on JavaScript numbers
JsAdd(a, b) == IF a = NaN \/ b = NaN THEN NaN ELSE a + b
JsSub(a, b) == IF a = NaN \/ b = NaN THEN NaN ELSE a - b
JsMod(a, b) == IF a = NaN \/ b = NaN \/ b = 0 THEN NaN ELSE a % b
JsMax(a, b) == IF a = NaN \/ b = NaN THEN NaN ELSE IF a >= b THEN a ELSE b
\* Math.ceil(a / b) * b
JsCeilTimes(a, b) ==
    IF a = NaN \/ b = NaN \/ b = 0 THEN NaN ELSE ((a + b - 1) \div b) * b

\* Vector.getAlignment, Matrix.getAlignment, Struct.getAlignment
GetAlignment(value) ==
    CASE value.kind = "Vector" ->
            IF value.dimension > 2 THEN 4 * BYTES_PER_ELEMENT ELSE 2 * BYTES_PER_ELEMENT
      [] value.kind = "Matrix" ->
            IF value.column > 2 THEN 4 * BYTES_PER_ELEMENT ELSE 2 * BYTES_PER_ELEMENT
      [] value.kind = "Struct" -> value.alignment

\* Vector.getSize, Matrix.getSize, Struct.getSize
GetSize(value) ==
    CASE value.kind = "Vector" -> Len(value.data) * BYTES_PER_ELEMENT
      [] value.kind = "Matrix" ->
            (IF value.column > 2 THEN 4 ELSE 2) * value.row * BYTES_PER_ELEMENT
      [] value.kind = "Struct" -> value.size

\* Struct.getDefaultValue: a nested descriptor gets the plain object of
\* its own default values
RECURSIVE GetDefaultValue(_)
GetDefaultValue(descriptor) ==
    [key \in {descriptor[i].key : i \in 1..Len(descriptor)} |->
        LET type == (CHOOSE f \in Range(descriptor) : f.key = key).type IN
        CASE type.kind = "scalar" -> Number(0)
          [] type.kind = "vector" -> zeroVector(type.column)
          [] type.kind = "matrix" -> zeroMatrix(type.column, type.row)
          [] type.kind = "descriptor" -> PlainObject(GetDefaultValue(type.fields))]

InvalidType == "Invalid type in descriptor"

\* does getDefaultValue throw: some field, or some field of a nested
\* descriptor, is neither a StructType name nor an object
RECURSIVE DefaultValueThrows(_)
DefaultValueThrows(descriptor) ==
    \E i \in DOMAIN descriptor :
        \/ descriptor[i].type.kind = "unknown"
        \/ descriptor[i].type.kind = "descriptor" /\ DefaultValueThrows(descriptor[i].type.fields)

\* the alignment the constructor takes for a field's value
FieldAlignment(value) ==
    IF value.kind = "number" THEN BYTES_PER_ELEMENT
    ELSE IF value.kind \in {"Vector", "Matrix", "Struct"} THEN GetAlignment(value)
    ELSE 0

\* the constructor taking 4 for the size of every value
FieldSizeScalarOnly(value) == BYTES_PER_ELEMENT

\* the size the constructor takes for a field's value
FieldSize(value) ==
    IF value.kind = "number" THEN BYTES_PER_ELEMENT
    ELSE IF value.kind \in {"Vector", "Matrix", "Struct"} THEN GetSize(value)
    ELSE 0

\* the loop of the Struct constructor from the i-th field on
RECURSIVE LayoutFrom(_, _, _, _)
LayoutFrom(descriptor, data, i, acc) ==
    IF i > Len(descriptor) THEN acc
    ELSE LET key == descriptor[i].key
             alignment == FieldAlignment(data[key])
             size == FieldSize(data[key])
         IN Then(JsAdd(acc.size, JsMod(JsSub(alignment, JsMod(acc.size, alignment)), alignment)),
                 LAMBDA offset :
                    Then([size |-> JsAdd(offset, size),
                          offsets |-> acc.offsets @@ (key :> offset),
                          alignment |-> JsMax(acc.alignment, alignment)],
                         LAMBDA next : LayoutFrom(descriptor, data, i + 1, next)))

\* new Struct(descriptor, data?)
StructNew(descriptor, data) ==
    IF ~IsSome(data) /\ DefaultValueThrows(descriptor)
    THEN [kind |-> "Struct", descriptor |-> descriptor, data |-> <<>>, alignment |-> 0,
          size |-> 0, offsets |-> <<>>, err |-> InvalidType]
    ELSE
    Then(IF IsSome(data) THEN data[1] ELSE GetDefaultValue(descriptor), LAMBDA values :
    Then(LayoutFrom(descriptor, values, 1, [size |-> 0, offsets |-> <<>>, alignment |-> 0]),
         LAMBDA layout :
            [kind |-> "Struct", descriptor |-> descriptor, data |-> values,
             alignment |-> layout.alignment,
             size |-> JsCeilTimes(layout.size, layout.alignment),
             offsets |-> layout.offsets, err |-> OK]))

\* a byte of a buffer: the k-th byte of the encoding of a number, the
\* encoding of zero being zero bytes in every encoding
ZeroByte == <<"zero", 0, 0>>
Encode(encoding, v) ==
    [k \in 1..BYTES_PER_ELEMENT |-> IF v = 0 THEN ZeroByte ELSE <<encoding, v, k>>]

\* new StructedView(new ArrayBuffer(byteLength), synchronize)
StructedViewNew(byteLength, synchronize) ==
    [buffer |-> [i \in 1..(IF byteLength = NaN THEN 0 ELSE byteLength) |-> ZeroByte],
     synchronize |-> synchronize, gpu |-> None]

\* the outcome of a call on a view: the view and the returned length
Wrote(view, length) == [view |-> view, ret |-> length]

\* updateGPUBuffer leaving the GPU buffer as it is
UpdateGPUBufferNever(view, offset, length) == view

\* StructedView.updateGPUBuffer: queue.writeBuffer of the byte range
UpdateGPUBuffer(view, offset, length) ==
    IF ~view.synchronize \/ view.gpu = None THEN view
    ELSE [view EXCEPT !.gpu[1].buffer =
            [i \in DOMAIN @ |->
                IF i \in (offset + 1)..(offset + length) THEN view.buffer[i] ELSE @[i]]]

\* DataView.setFloat32 / setInt32 / setUint32, little-endian, then
\* updateGPUBuffer: StructedView.setFloatNumber / setSignedInteger /
\* setUnsignedInteger
SetNumber(view, encoding, offset, v) ==
    Then([view EXCEPT !.buffer =
            [i \in DOMAIN @ |->
                IF i \in (offset + 1)..(offset + BYTES_PER_ELEMENT)
                THEN Encode(encoding, v)[i - offset] ELSE @[i]]],
         LAMBDA written : Wrote(UpdateGPUBuffer(written, offset, BYTES_PER_ELEMENT),
                                BYTES_PER_ELEMENT))

\* Vector.writeStructedView and Matrix.writeStructedView from the i-th
\* element on: the elements one after another, four bytes each
RECURSIVE WriteFloats(_, _, _, _)
WriteFloats(view, data, offset, i) ==
    IF i > Len(data) THEN Wrote(view, Len(data) * BYTES_PER_ELEMENT)
    ELSE Then(SetNumber(view, "f32", offset + (i - 1) * BYTES_PER_ELEMENT, data[i]),
              LAMBDA r : WriteFloats(r.view, data, offset, i + 1))

RECURSIVE WriteStructedView(_, _, _)

\* Struct.writeProperty
WriteProperty(view, struct, offset, i) ==
    LET typeName == struct.descriptor[i].type.name
        value == struct.data[struct.descriptor[i].key]
    IN CASE value.kind = "number" ->
                SetNumber(view, CASE typeName = "int" -> "i32"
                                  [] typeName = "uint" -> "u32"
                                  [] typeName = "float" -> "f32", offset, value.v)
         [] value.kind \in {"Vector", "Matrix", "Struct"} ->
                WriteStructedView(view, value, offset)
         [] OTHER -> Wrote(view, 0)

\* Struct.writeStructedView from the i-th field on
RECURSIVE WriteFields(_, _, _, _)
WriteFields(view, struct, offset, i) ==
    IF i > Len(struct.descriptor) THEN Wrote(view, struct.size)
    ELSE Then(WriteProperty(view, struct, struct.offsets[struct.descriptor[i].key] + offset, i),
              LAMBDA r : WriteFields(r.view, struct, offset, i + 1))

\* value.writeStructedView(view, offset)
WriteStructedView(view, value, offset) ==
    IF value.kind = "Struct" THEN WriteFields(view, value, offset, 1)
    ELSE WriteFloats(view, value.data, offset, 1)

\* Struct.set: the value is stored unless it equals the one held
StructSet(struct, i, value) ==
    LET key == struct.descriptor[i].key IN
    IF struct.descriptor[i].type.kind # "descriptor" /\ struct.data[key] = value THEN struct
    ELSE [struct EXCEPT !.data[key] = value]

\* new BufferedStruct(label, descriptor, data?, synchronize)
BufferedStructNew(descriptor, data, synchronize) ==
    Then(StructNew(descriptor, data), LAMBDA struct :
        [struct |-> struct, view |-> StructedViewNew(struct.size, synchronize)])

\* BufferedStruct.set
BufferedStructSet(buffered, i, value) ==
    Then(StructSet(buffered.struct, i, value), LAMBDA struct :
    Then(WriteProperty(buffered.view, struct, struct.offsets[struct.descriptor[i].key], i),
         LAMBDA r : [struct |-> struct, view |-> r.view]))

\* StructedView.append
append(view, offset, value) ==
    LET align == GetAlignment(value)
        padding == (align - (offset % align)) % align
    IN Then(WriteStructedView(view, value, offset + padding), LAMBDA r :
            Wrote(UpdateGPUBuffer(r.view, offset + padding, r.ret), padding + r.ret))

\* StructedView.appendFloat / appendSignedInteger / appendUnsignedInteger
AppendNumber(view, encoding, offset, v) ==
    LET align == BYTES_PER_ELEMENT
        padding == (align - (offset % align)) % align
    IN Then(SetNumber(view, encoding, offset + padding, v), LAMBDA r :
            Wrote(r.view, padding + r.ret))

\* StructedView.getGPUBuffer of the view of a struct: the buffer is made
\* for the device and the whole CPU-side buffer is written into it
ViewGetGPUBuffer(view, dev) ==
    IF IsSome(view.gpu) THEN view
    ELSE [view EXCEPT !.gpu = Some([device |-> dev, buffer |-> view.buffer])]

\* the value of a type made from a seed number, and the data object of a
\* descriptor whose every field holds such a value; the value of a nested
\* descriptor is a Struct
RECURSIVE ValueOf(_, _)
SuppliedData(descriptor, seed) ==
    [key \in {descriptor[i].key : i \in 1..Len(descriptor)} |->
        ValueOf((CHOOSE f \in Range(descriptor) : f.key = key).type, seed)]

ValueOf(type, seed) ==
    CASE type.kind = "scalar" -> Number(seed)
      [] type.kind = "vector" -> VectorNew([i \in 1..type.column |-> seed])
      [] type.kind = "matrix" ->
            MatrixNew(type.column, type.row, [i \in 1..type.column * type.row |-> seed])
      [] type.kind = "descriptor" ->
            StructNew(type.fields, Some(SuppliedData(type.fields, seed)))
      [] type.kind = "unknown" -> Number(seed)

\* the descriptors: the scenario descriptor of the specification and every
\* descriptor of up to MaxFields fields over these types
InnerDescriptor ==
    <<[key |-> "x", type |-> ScalarType("int")], [key |-> "y", type |-> VectorType(3)]>>
FieldTypes ==
    {ScalarType("float"), ScalarType("uint"), VectorType(3), MatrixType(3, 3),
     NestedType(InnerDescriptor)}
ScenarioDescriptor ==
    <<[key |-> "position", type |-> VectorType(3)], [key |-> "color", type |-> VectorType(4)],
      [key |-> "transform", type |-> MatrixType(4, 4)]>>
Descriptors ==
    {ScenarioDescriptor} \cup
    UNION {{[i \in 1..n |-> [key |-> Key(i), type |-> f[i]]] : f \in [1..n -> FieldTypes]} :
           n \in 1..MaxFields}
\* the arguments of new BufferedStruct: data left out or supplied
StructInputs ==
    [descriptor : Descriptors, data : {"default", "supplied"}, synchronize : BOOLEAN]
DefaultStructInput ==
    [descriptor |-> ScenarioDescriptor, data |-> "default", synchronize |-> TRUE]

\* descriptors of up to MaxFields fields of which one names no StructType
UnknownDescriptors ==
    {descriptor \in
        UNION {{[i \in 1..n |-> [key |-> Key(i), type |-> f[i]]] :
                    f \in [1..n -> {ScalarType("float"), VectorType(3), UnknownType("float64"),
                                    NestedType(<<[key |-> "x", type |-> UnknownType("double")]>>)}]} :
               n \in 1..MaxFields} :
        DefaultValueThrows(descriptor)}
UnknownStructInputs ==
    [descriptor : UnknownDescriptors, data : {"default", "supplied"}, synchronize : {TRUE}]

\* the values handed to append, and the scratch view they are appended to
AppendTypes ==
    {VectorType(2), VectorType(3), VectorType(4), MatrixType(2, 2), MatrixType(3, 3),
     MatrixType(4, 4), MatrixType(3, 2), NestedType(InnerDescriptor)}
ScratchNew(offset) ==
    [view |-> StructedViewNew(ScratchBytes, TRUE), cursor |-> offset, log |-> <<>>]

----------------------------------------------------------------------------
(* VerticesView: the normalized byte writers.  A number is the fraction    *)
(* num / den with den > 0; a byte is its bit pattern 0..255.               *)

\* the integer part of num / den, towards zero: ToInt8 and ToUint8 drop
\* the fraction of the number they are given
Truncate(num, den) ==
    IF num >= 0 THEN num \div den ELSE -((-num) \div den)

\* DataView.setInt8 / setUint8 and the element store of Int8Array /
\* Uint8Array: the integer part, modulo 2^8
ToByte(num, den) == Truncate(num, den) % 256

\* setNormalizedSignedByte and setNormalizedSignedByteArray: the byte
\* stored for value = k / Grid is (value * 0xff - 1) / 2
EncodeSnorm8(k) == ToByte(255 * k - Grid, 2 * Grid)

\* the unorm8 writers storing value * 0x7f
EncodeUnorm8Half(k) == ToByte(127 * k, Grid)

\* setNormalizedUnsignedByte and setNormalizedUnsignedByteArray: the byte
\* stored for value = k / Grid is value * 0xff
EncodeUnorm8(k) == ToByte(255 * k, Grid)

\* the bytes of a buffer from offset on replaced by the given ones
SetBytes(buffer, offset, bytes) ==
    [i \in DOMAIN buffer |->
        IF i \in (offset + 1)..(offset + Len(bytes)) THEN bytes[i - offset] ELSE buffer[i]]

----------------------------------------------------------------------------
(* Texture and Texture2D.  A texture record holds texture and textureView  *)
(* (a handle, 0 for null; the view is named by the handle it views),       *)
(* accessDevice, source, isLoaded and currentGPUTask, the map from handle  *)
(* to the tail promise of its task chain.                                  *)

NoTask == 0     \* the task argument a caller left out (undefined)

\* has the promise with this chain been fulfilled: every task chained into
\* it by existingTask.then(() => task) has been fulfilled
Fulfilled(w, chain) ==
    \A i \in 1..Len(chain) : chain[i] = NoTask \/ w.taskState[chain[i]].state = "resolved"

\* Texture.getCurrentGPUTask: the map entry, created as Promise.resolve()
\* when missing.  ret is the promise.
GetCurrentGPUTask(w, t, handle) ==
    IF handle \in DOMAIN w.tex[t].currentGPUTask
    THEN Return(w, w.tex[t].currentGPUTask[handle])
    ELSE Return([w EXCEPT !.tex[t].currentGPUTask = (handle :> <<>>) @@ @], <<>>)

\* setCurrentGPUTask storing the task in place of the existing tail
SetCurrentGPUTaskReplace(w, t, task) ==
    IF w.tex[t].texture = 0 THEN w
    ELSE LET handle == w.tex[t].texture IN
         Then(GetCurrentGPUTask(w, t, handle), LAMBDA w1 :
            [w1 EXCEPT !.tex[t].currentGPUTask[handle] = <<task>>,
                       !.registered = @ \cup {[handle |-> handle, task |-> task]}])

\* Texture.setCurrentGPUTask: chain the task behind the existing tail
SetCurrentGPUTask(w, t, task) ==
    IF w.tex[t].texture = 0 THEN w
    ELSE LET handle == w.tex[t].texture IN
         Then(GetCurrentGPUTask(w, t, handle), LAMBDA w1 :
            [w1 EXCEPT !.tex[t].currentGPUTask[handle] = Append(w1.ret, task),
                       !.registered = @ \cup {[handle |-> handle, task |-> task]}])

\* Texture.clearCurrentGPUTask
ClearCurrentGPUTask(w, t, handle) ==
    [w EXCEPT !.tex[t].currentGPUTask =
        [h \in (DOMAIN @) \ {handle} |-> @[h]]]

\* device.queue.onSubmittedWorkDone(): a new task promise, fulfilled once
\* every operation now in the GPU queue has completed.  ret is the task.
OnSubmittedWorkDone(w) ==
    LET task == [kind |-> "workDone", awaits |-> Len(w.gpuQueue), state |-> "pending"]
    IN Return([w EXCEPT !.taskState = Append(@, task)], Len(w.taskState) + 1)

\* Texture2D.writeTexture: copy the source into the handle and chain the
\* work-done promise
WriteTexture(w, t) ==
    IF w.tex[t].source = Null \/ w.tex[t].texture = 0 \/ w.tex[t].accessDevice = Null
    THEN w
    ELSE LET op == [kind |-> "write", handles |-> {w.tex[t].texture}] IN
         Then(OnSubmittedWorkDone(
                [w EXCEPT !.gpuQueue = Append(@, op),
                          !.gpuTextures[w.tex[t].texture].data = w.tex[t].source]),
              LAMBDA w1 : SetCurrentGPUTask(w1, t, w1.ret))

\* Texture2D.createGPUTexture.  ret is the new handle.
CreateGPUTexture(w, t, dev) ==
    LET handle == w.nextHandle + 1 IN
    Then([w EXCEPT !.nextHandle = handle, !.tex[t].texture = handle,
                   !.gpuTextures = Append(@, [size |-> w.tex[t].size, data |-> Null])],
         LAMBDA w1 :
    Then(WriteTexture(w1, t), LAMBDA w2 : Return(w2, handle)))

\* Texture.getGPUTexture
GetGPUTexture(w, t, dev) ==
    IF w.err # OK THEN w
    ELSE IF w.tex[t].accessDevice # dev /\ w.tex[t].accessDevice # Null
    THEN Throw(w, DeviceConflictTexture)
    ELSE Then([w EXCEPT !.tex[t].accessDevice = dev], LAMBDA w1 :
            IF w1.tex[t].texture # 0 THEN Return(w1, w1.tex[t].texture)
            ELSE CreateGPUTexture(w1, t, dev))

\* Texture.getGPUTextureView.  ret is the handle the view is a view of.
GetGPUTextureView(w, t, dev, renderTask) ==
    IF w.err # OK THEN w
    ELSE Then(SetCurrentGPUTask(w, t, renderTask), LAMBDA w1 :
            IF w1.tex[t].textureView # 0 THEN Return(w1, w1.tex[t].textureView)
            ELSE Then(GetGPUTexture(w1, t, dev), LAMBDA w2 :
                    IF w2.err # OK THEN w2
                    ELSE Return([w2 EXCEPT !.tex[t].textureView = w2.ret], w2.ret)))

\* Texture.destroyGPUTextureAfterPromise: register the continuation
DestroyGPUTextureAfterPromise(w, t, promise, handle) ==
    [w EXCEPT !.destroyWaiters =
        Append(@, [tex |-> t, handle |-> handle, promise |-> promise])]

\* destroyGPUTexture calling destroy() on the handle at once
DestroyGPUTextureNow(w, t) ==
    [w EXCEPT !.destroyed = IF w.tex[t].texture = 0 THEN @ ELSE @ \cup {w.tex[t].texture},
              !.tex[t].texture = 0,
              !.tex[t].textureView = 0]

\* Texture.destroyGPUTexture
DestroyGPUTexture(w, t) ==
    Then(IF w.tex[t].texture = 0 THEN w
         ELSE LET textureToDestroy == w.tex[t].texture IN
              Then(GetCurrentGPUTask(w, t, textureToDestroy), LAMBDA wa :
              Then(DestroyGPUTextureAfterPromise(wa, t, wa.ret, textureToDestroy), LAMBDA wb :
                 [wb EXCEPT !.tex[t].texture = 0])),
         LAMBDA w1 : [w1 EXCEPT !.tex[t].textureView = 0])

\* Texture2D.unload
Unload(w, t) ==
    Then([w EXCEPT !.tex[t].source = Null, !.tex[t].isLoaded = FALSE], LAMBDA w1 :
        DestroyGPUTexture(w1, t))

\* the continuation of destroyGPUTextureAfterPromise, run once its promise
\* is fulfilled: push the handle if the tail is still that promise, else
\* wait for the new tail
DestroyContinuation(w, waiter) ==
    Then(GetCurrentGPUTask(w, waiter.tex, waiter.handle), LAMBDA w1 :
        LET currentPromise == w1.ret IN
        IF currentPromise = waiter.promise
        THEN Then([w1 EXCEPT !.destructionQueue = Append(@, waiter.handle)], LAMBDA w2 :
                ClearCurrentGPUTask(w2, waiter.tex, waiter.handle))
        ELSE DestroyGPUTextureAfterPromise(w1, waiter.tex, currentPromise, waiter.handle))

RemoveAt(s, i) == SubSeq(s, 1, i - 1) \o SubSeq(s, i + 1, Len(s))

\* the microtask checkpoint at the end of a JavaScript task: run the
\* continuations of the fulfilled promises, oldest first, until none is left
RECURSIVE RunMicrotasks(_)
RunMicrotasks(w) ==
    LET ready == {i \in 1..Len(w.destroyWaiters) : Fulfilled(w, w.destroyWaiters[i].promise)}
    IN IF ready = {} THEN w
       ELSE LET i == CHOOSE k \in ready : \A j \in ready : k <= j
                waiter == w.destroyWaiters[i]
            IN Then([w EXCEPT !.destroyWaiters = RemoveAt(@, i)], LAMBDA w1 :
               Then(DestroyContinuation(w1, waiter), LAMBDA w2 : RunMicrotasks(w2)))

\* destroyTextures popping a single handle per call
DestroyTexturesOnce(w) ==
    IF Len(w.destructionQueue) = 0 THEN w
    ELSE [w EXCEPT !.destructionQueue = SubSeq(@, 1, Len(@) - 1),
                   !.destroyed = @ \cup {w.destructionQueue[Len(w.destructionQueue)]}]

\* Texture.destroyTextures: the drain of the destruction queue.  Handles
\* are popped from the tail and destroyed until the queue is empty.
RECURSIVE DestroyTextures(_)
DestroyTextures(w) ==
    IF Len(w.destructionQueue) = 0 THEN w
    ELSE LET texture == w.destructionQueue[Len(w.destructionQueue)]
         IN Then([w EXCEPT !.destructionQueue = SubSeq(@, 1, Len(@) - 1),
                           !.destroyed = @ \cup {texture}],
                 LAMBDA w1 : DestroyTextures(w1))

\* new Texture2D(label, descriptor)
Texture2DNew(size, source) ==
    [texture |-> 0, textureView |-> 0, accessDevice |-> Null, size |-> size,
     source |-> IF source.lazy THEN Null ELSE source.value,
     isLoaded |-> ~source.lazy, loadSource |-> source, loading |-> <<>>,
     currentGPUTask |-> <<>>]

\* Texture2D.setSize
SetSize(w, t, size) ==
    Then(IF w.tex[t].isLoaded THEN Unload(w, t) ELSE w, LAMBDA w1 :
        [w1 EXCEPT !.tex[t].size = size])

\* Texture2D.setSource; a new loader has not been invoked yet
SetSource(w, t, source) ==
    Then(IF w.tex[t].isLoaded THEN Unload(w, t) ELSE w, LAMBDA w1 :
        IF source.lazy
        THEN [w1 EXCEPT !.tex[t].loadSource = source, !.tex[t].source = Null,
                        !.loaderCalls[t] = 0]
        ELSE [w1 EXCEPT !.tex[t].loadSource = source, !.tex[t].source = source.value,
                        !.tex[t].isLoaded = TRUE, !.loaderCalls[t] = 0])

\* Texture2D.load up to its await: the loader is invoked when the texture
\* has no source, and the call waits for what the loader gives
Load(w, t) ==
    IF w.tex[t].source # Null THEN w
    ELSE [w EXCEPT !.tex[t].loading = Append(@, w.tex[t].loadSource),
                   !.loaderCalls[t] = IF w.tex[t].loadSource.lazy THEN @ + 1 ELSE @]

\* load() resumed without marking the texture loaded
LoadContinuationNotLoaded(w, t, i) ==
    Then([w EXCEPT !.tex[t].source = w.tex[t].loading[i].value,
                   !.tex[t].loading = RemoveAt(@, i)],
         LAMBDA w1 : WriteTexture(w1, t))

\* Texture2D.load after its await: the i-th waiting call resumes
LoadContinuation(w, t, i) ==
    Then([w EXCEPT !.tex[t].source = w.tex[t].loading[i].value,
                   !.tex[t].isLoaded = TRUE,
                   !.tex[t].loading = RemoveAt(@, i)],
         LAMBDA w1 : WriteTexture(w1, t))

\* the load() calls waiting for Promise.resolve(source), the loader of a
\* texture given its source directly, resume in the microtask checkpoint
RECURSIVE ResumeDirectLoads(_)
ResumeDirectLoads(w) ==
    LET ready == {x \in {<<t, i>> : t \in Textures, i \in 1..MaxLoads + 1} :
                     /\ x[2] <= Len(w.tex[x[1]].loading)
                     /\ ~w.tex[x[1]].loading[x[2]].lazy}
    IN IF ready = {} THEN w
       ELSE LET x == CHOOSE y \in ready : \A z \in ready : y[2] <= z[2]
            IN Then(LoadContinuation(w, x[1], x[2]), LAMBDA w1 : ResumeDirectLoads(w1))

----------------------------------------------------------------------------
(* VertexArray *)

IndexOutOfRange == "Index Out Of Range"

\* Uint16Array.set / Uint32Array.set: each element modulo 2^16 / 2^32 (the
\* indices of the model are below 2^31, which a Uint32Array holds as they are)
StoreIndices(type, indices) ==
    [i \in DOMAIN indices |->
        IF type = "uint16" THEN indices[i] % (UINT16_MAX + 1) ELSE indices[i]]

\* the constructor choosing 32-bit indices from 0xFFFF on
VertexArrayNewFrom0xFFFF(label, vertexCount, indices) ==
    IF ~IsSome(indices)
    THEN [label |-> label, vertexCount |-> vertexCount, indices |-> None, err |-> OK]
    ELSE LET maxIndex == IF indices[1] = <<>> THEN -1 ELSE Max(Range(indices[1]))
             type == IF maxIndex >= UINT16_MAX THEN "uint32" ELSE "uint16"
         IN IF maxIndex >= vertexCount
            THEN [label |-> label, vertexCount |-> vertexCount, indices |-> None,
                  err |-> IndexOutOfRange]
            ELSE [label |-> label, vertexCount |-> vertexCount, err |-> OK,
                  indices |-> Some([type |-> type, view |-> <<label, "indices">>,
                                    data |-> StoreIndices(type, indices[1])])]

\* VertexArray.constructor: the index stream is uint16 unless an index
\* exceeds 0xFFFF; an index that addresses no vertex is a RangeError
VertexArrayNew(label, vertexCount, indices) ==
    IF ~IsSome(indices)
    THEN [label |-> label, vertexCount |-> vertexCount, indices |-> None, err |-> OK]
    ELSE LET maxIndex == IF indices[1] = <<>> THEN -1 ELSE Max(Range(indices[1]))
             indexSize == IF maxIndex > UINT16_MAX THEN 4 ELSE 2
             type == IF indexSize <= 2 THEN "uint16" ELSE "uint32"
         IN IF maxIndex >= vertexCount
            THEN [label |-> label, vertexCount |-> vertexCount, indices |-> None,
                  err |-> IndexOutOfRange]
            ELSE [label |-> label, vertexCount |-> vertexCount, err |-> OK,
                  indices |-> Some([type |-> type, view |-> <<label, "indices">>,
                                    data |-> StoreIndices(type, indices[1])])]

\* VertexArray.getBufferLayout() with no attribute filter: one vertex
\* buffer holding every attribute, and the array's index stream if any
GetBufferLayout(va) ==
    [count |-> va.vertexCount, vertices |-> <<<<va.label, "vertices">>>>,
     indices |-> IF IsSome(va.indices)
                 THEN Some([type |-> va.indices[1].type, view |-> va.indices[1].view])
                 ELSE None]

\* VertexArray.registeredVertexArrays: the arrays core/render/vertex.ts
\* registers at module load
RegisteredVertexArrays == {"quadrilateral", "fullscreen-triangle"}
VertexArrayOf(name) ==
    CASE name = "quadrilateral" -> VertexArrayNew(name, 6, None)
      [] name = "fullscreen-triangle" -> VertexArrayNew(name, 3, None)

\* a vertex array the application builds itself and draws by inline layout
TriIndexed == VertexArrayNew("tri", 3, Some(<<0, 1, 2>>))

\* vertex arrays whose index stream is longer and shorter than their
\* vertex data: a quadrilateral of four vertices drawn as two triangles,
\* and two of three vertices drawn as a line
QuadIndexed == VertexArrayNew("quad", 4, Some(<<0, 1, 2, 2, 1, 3>>))
LineIndexed == VertexArrayNew("line", 3, Some(<<0, 1>>))
IndexedArrays == {TriIndexed, QuadIndexed, LineIndexed}

NotRegistered == "VertexArray is not registered."

\* the arguments of new VertexArray(label, descriptor, data, indices): data
\* is a number of default vertices (count) or an array of vertices (values)
VertexArrayInput(descriptor, count, values, indices) ==
    [descriptor |-> descriptor, count |-> count, values |-> values, indices |-> indices]

DefaultVertexArrayInput == VertexArrayInput(<<>>, 0, None, None)

\* this.data.length after the constructor has made this.data
VertexCount(input) == IF IsSome(input.values) THEN Len(input.values[1]) ELSE input.count

\* vertex counts and indices on both sides of 0xFFFF
VertexCounts == {0, 3, UINT16_MAX, UINT16_MAX + 1, UINT16_MAX + 2}
IndexValues == {0, 2, UINT16_MAX - 1, UINT16_MAX, UINT16_MAX + 1}
IndexArrays == UNION {[1..n -> IndexValues] : n \in 0..MaxIndices}
IndexedInputs ==
    {VertexArrayInput(<<>>, count, None, Some(indices)) :
        count \in VertexCounts, indices \in IndexArrays}
    \cup {VertexArrayInput(<<>>, count, None, None) : count \in VertexCounts}

\* VertexArray.getVertexArray(name).getRegisteredLayout(name)
GetRegisteredLayout(w, name) ==
    IF w.err # OK THEN w
    ELSE IF name \notin RegisteredVertexArrays THEN Throw(w, NotRegistered)
    ELSE Return([w EXCEPT !.registeredViews[name] = @ \cup {name}],
                GetBufferLayout(VertexArrayOf(name)))

\* a vertex descriptor is the sequence of its properties in declaration
\* order; Undefined stands for a property whose format is undefined
Undefined == "undefined"

\* the byte size getStrideAndAttributes adds to the stride for a format;
\* a format of no case of the switch adds nothing
FormatSize(format) ==
    CASE format \in {"sint8x2", "uint8x2", "snorm8x2", "unorm8x2"} -> 2
      [] format \in {"sint8x4", "uint8x4", "snorm8x4", "unorm8x4", "sint16x2", "uint16x2",
                     "snorm16x2", "unorm16x2", "float16x2", "sint32", "uint32",
                     "float32"} -> 4
      [] format \in {"sint16x4", "uint16x4", "snorm16x4", "unorm16x4", "float16x4",
                     "sint32x2", "uint32x2", "float32x2"} -> 8
      [] format \in {"sint32x3", "uint32x3", "float32x3"} -> 12
      [] format \in {"sint32x4", "uint32x4", "float32x4"} -> 16
      [] OTHER -> 0

\* the loop of getStrideAndAttributes from the i-th property on, every
\* included property taking the location of the first one
RECURSIVE StrideAndAttributesSameLocation(_, _, _, _)
StrideAndAttributesSameLocation(descriptor, properties, i, acc) ==
    IF i > Len(descriptor) THEN acc
    ELSE LET key == descriptor[i].key
             format == descriptor[i].format
         IN IF (IsSome(properties) /\ key \notin Range(properties[1])) \/ format = Undefined
            THEN StrideAndAttributesSameLocation(descriptor, properties, i + 1, acc)
            ELSE StrideAndAttributesSameLocation(descriptor, properties, i + 1,
                    [stride |-> acc.stride + FormatSize(format),
                     attributes |-> acc.attributes \o
                        <<[key |-> key, shaderLocation |-> acc.nextLocation,
                           offset |-> acc.stride, format |-> format]>>,
                     nextLocation |-> acc.nextLocation])

\* the loop of getStrideAndAttributes from the i-th property on; the
\* attributes are kept in insertion order, as Object.values gives them
RECURSIVE StrideAndAttributesFrom(_, _, _, _)
StrideAndAttributesFrom(descriptor, properties, i, acc) ==
    IF i > Len(descriptor) THEN acc
    ELSE LET key == descriptor[i].key
             format == descriptor[i].format
         IN IF (IsSome(properties) /\ key \notin Range(properties[1])) \/ format = Undefined
            THEN StrideAndAttributesFrom(descriptor, properties, i + 1, acc)
            ELSE StrideAndAttributesFrom(descriptor, properties, i + 1,
                    [stride |-> acc.stride + FormatSize(format),
                     attributes |-> acc.attributes \o
                        <<[key |-> key, shaderLocation |-> acc.nextLocation,
                           offset |-> acc.stride, format |-> format]>>,
                     nextLocation |-> acc.nextLocation + 1])

\* VertexArray.getStrideAndAttributes(descriptor, startLocation, properties)
GetStrideAndAttributes(descriptor, startLocation, properties) ==
    StrideAndAttributesFrom(descriptor, properties, 1,
        [stride |-> 0, attributes |-> <<>>, nextLocation |-> startLocation])

\* Pipeline.constructor, its loop over descriptor.vertex from the i-th
\* vertex descriptor on: this.vertexBufferLayout
RECURSIVE VertexBufferLayoutFrom(_, _, _, _)
VertexBufferLayoutFrom(descriptors, i, shaderLocation, acc) ==
    IF i > Len(descriptors) THEN acc
    ELSE Then(GetStrideAndAttributes(descriptors[i], shaderLocation, None),
              LAMBDA r : VertexBufferLayoutFrom(descriptors, i + 1, r.nextLocation,
                            Append(acc, [stride |-> r.stride, attributes |-> r.attributes])))

PipelineVertexBufferLayout(descriptors) == VertexBufferLayoutFrom(descriptors, 1, 0, <<>>)

\* a property value of a vertex: a number (id 0, compared by value) or a
\* Vector object (compared by identity, id > 0); undefined when absent
Value(id, value) == [id |-> id, value |-> value]
UndefinedValue == Value(0, [kind |-> Undefined])
StrictNotEqual(a, b) == IF a.id = 0 /\ b.id = 0 THEN a.value # b.value ELSE a.id # b.id

FormatDimension(format) ==
    CASE format \in {"sint32", "uint32", "float32"} -> 1
      [] format \in {"uint8x2", "float16x2", "float32x2"} -> 2
      [] format \in {"sint32x3", "float32x3"} -> 3
      [] format \in {"float32x4"} -> 4
      [] OTHER -> 0

\* VertexArray.getDefaultVertexData: 0 for a scalar, a zero vector for a
\* vector, nothing for any other format; the i-th property's vector is
\* object i
GetDefaultVertexData(descriptor) ==
    [i \in DOMAIN descriptor |->
        CASE FormatDimension(descriptor[i].format) = 1 -> Value(0, Number(0))
          [] FormatDimension(descriptor[i].format) > 1 ->
                Value(i, zeroVector(FormatDimension(descriptor[i].format)))
          [] OTHER -> UndefinedValue]

\* this.data: Array(data).fill(default), every element the one default
\* vertex, or Array.from(data); set() replaces elements (changed)
VertexData(descriptor, input) ==
    IF IsSome(input.values)
    THEN [default |-> <<>>,
          changed |-> [index \in 0..(Len(input.values[1]) - 1) |-> input.values[1][index + 1]]]
    ELSE [default |-> GetDefaultVertexData(descriptor), changed |-> <<>>]

\* this.data[index]
DataAt(va, index) ==
    IF index \in DOMAIN va.data.changed THEN va.data.changed[index] ELSE va.data.default

\* new VerticesView(new ArrayBuffer(byteLength))
VerticesViewNew(byteLength) == StructedViewNew(byteLength, TRUE)

InvalidDataType == "Invalid Data Type"
NotImplemented == "Not implemented"
TypedArrayRange == "RangeError: invalid typed array offset or length"

\* the byte a Uint8Array element holds
EncodeByte(v) == IF v % 256 = 0 THEN ZeroByte ELSE <<"u8", v % 256, 1>>

\* new Uint8Array(buffer, offset, length).set(data), then updateGPUBuffer
SetBytesOf(view, position, data) ==
    IF position + Len(data) > Len(view.buffer) THEN [view |-> view, err |-> TypedArrayRange]
    ELSE [view |-> UpdateGPUBuffer(
                      [view EXCEPT !.buffer =
                          [i \in DOMAIN @ |->
                              IF i \in (position + 1)..(position + Len(data))
                              THEN EncodeByte(data[i - position]) ELSE @[i]]],
                      position, Len(data)),
          err |-> OK]

\* the elements of a 32-bit typed array from the i-th on
RECURSIVE SetElementsFrom(_, _, _, _, _)
SetElementsFrom(view, encoding, position, data, i) ==
    IF i > Len(data) THEN view
    ELSE Then(SetNumber(view, encoding, position + (i - 1) * BYTES_PER_ELEMENT, data[i]),
              LAMBDA r : SetElementsFrom(r.view, encoding, position, data, i + 1))

\* new Int32Array / Uint32Array / Float32Array (buffer, offset, length)
\* .set(data): the offset must be a multiple of the element size and the
\* elements must lie in the buffer
SetElements(view, encoding, position, data) ==
    IF position % BYTES_PER_ELEMENT # 0
       \/ position + Len(data) * BYTES_PER_ELEMENT > Len(view.buffer)
    THEN [view |-> view, err |-> TypedArrayRange]
    ELSE [view |-> SetElementsFrom(view, encoding, position, data, 1), err |-> OK]

\* VertexArray.writeProperty, for the formats of the model's descriptors
WriteVertexProperty(view, position, format, value) ==
    CASE format = Undefined -> [view |-> view, err |-> OK]
      [] format = "sint32" -> [view |-> SetNumber(view, "i32", position, value.value.v).view, err |-> OK]
      [] format = "uint32" -> [view |-> SetNumber(view, "u32", position, value.value.v).view, err |-> OK]
      [] format = "float32" -> [view |-> SetNumber(view, "f32", position, value.value.v).view, err |-> OK]
      [] format = "uint8x2" -> SetBytesOf(view, position, value.value.data)
      [] format = "sint32x3" -> SetElements(view, "i32", position, value.value.data)
      [] format \in {"float32x2", "float32x4"} -> SetElements(view, "f32", position, value.value.data)
      [] format = "float16x2" -> [view |-> view, err |-> NotImplemented]
      [] OTHER -> [view |-> view, err |-> InvalidDataType]

\* the attribute of a key in an attribute map, if any
AttributeOf(attributes, key) ==
    IF \E j \in DOMAIN attributes : attributes[j].key = key
    THEN Some(attributes[CHOOSE j \in DOMAIN attributes : attributes[j].key = key])
    ELSE None

\* the properties of one vertex written from the i-th property of the
\* descriptor on, those of the given keys only
RECURSIVE WriteVertexFrom(_, _, _, _, _, _, _)
WriteVertexFrom(va, r, index, stride, attributes, keys, i) ==
    IF r.err # OK \/ i > Len(va.descriptor) THEN r
    ELSE LET key == va.descriptor[i].key
             attribute == AttributeOf(attributes, key)
         IN IF key \notin keys \/ ~IsSome(attribute)
            THEN WriteVertexFrom(va, r, index, stride, attributes, keys, i + 1)
            ELSE Then(WriteVertexProperty(r.view, index * stride + attribute[1].offset,
                                          va.descriptor[i].format, DataAt(va, index)[i]),
                      LAMBDA r1 : WriteVertexFrom(va, r1, index, stride, attributes, keys, i + 1))

Keys(descriptor) == {descriptor[i].key : i \in DOMAIN descriptor}

\* VertexArray.writeVertexArray from the vertex of the given index on
RECURSIVE WriteVertexArrayFrom(_, _, _, _, _)
WriteVertexArrayFrom(va, r, stride, attributes, index) ==
    IF r.err # OK \/ index >= va.vertexCount THEN r
    ELSE Then(WriteVertexFrom(va, r, index, stride, attributes, Keys(va.descriptor), 1),
              LAMBDA r1 : WriteVertexArrayFrom(va, r1, stride, attributes, index + 1))

\* VertexArray.getBufferLayout, its loop from the i-th attribute list on
RECURSIVE BufferLayoutFrom(_, _, _, _, _)
BufferLayoutFrom(va, lists, i, shaderLocation, acc) ==
    IF acc.err # OK \/ i > Len(lists) THEN acc
    ELSE Then(GetStrideAndAttributes(va.descriptor, shaderLocation, Some(lists[i])),
              LAMBDA sa :
              Then(WriteVertexArrayFrom(va,
                        [view |-> VerticesViewNew(va.vertexCount * sa.stride), err |-> OK],
                        sa.stride, sa.attributes, 0),
                   LAMBDA r :
                   BufferLayoutFrom(va, lists, i + 1, sa.nextLocation,
                        [err |-> r.err,
                         vertices |-> Append(acc.vertices,
                            [view |-> r.view, attributes |-> sa.attributes,
                             stride |-> sa.stride])])))

\* Array.from(Object.keys(this.descriptor))
KeyList(descriptor) == [i \in DOMAIN descriptor |-> descriptor[i].key]

\* VertexArray.getBufferLayout(...bufferAttributeList): err is the error
\* thrown, if any
GetBufferLayoutOf(va, bufferAttributeList) ==
    Then(BufferLayoutFrom(va,
            IF bufferAttributeList = <<>> THEN <<KeyList(va.descriptor)>>
            ELSE bufferAttributeList,
            1, 0, [err |-> OK, vertices |-> <<>>]),
         LAMBDA r : [err |-> r.err, count |-> va.vertexCount, vertices |-> r.vertices,
                     indices |-> va.indices])

\* VertexArray.constructor: descriptor, data and the empty registeredViews,
\* a sequence of the keys with their layouts in insertion order; objects
\* counts the objects made so far, the identity of the next one
VertexArrayOfInput(label, input) ==
    VertexArrayNew(label, VertexCount(input), input.indices)
    @@ [descriptor |-> input.descriptor,
        data |-> VertexData(input.descriptor, input),
        registeredViews |-> <<>>,
        objects |-> Len(input.descriptor)]

RegisteredKeys(va) == {va.registeredViews[j].key : j \in DOMAIN va.registeredViews}
RegisteredLayout(va, key) ==
    va.registeredViews[CHOOSE j \in DOMAIN va.registeredViews :
                            va.registeredViews[j].key = key].layout

\* getRegisteredLayout building a layout on every call
RegisteredLayoutOfRebuilt(va, key, attributeNames) ==
    Then(GetBufferLayoutOf(va, IF attributeNames # <<>> THEN <<attributeNames>> ELSE <<>>),
         LAMBDA built :
         [va |-> [va EXCEPT !.objects = @ + 1],
          err |-> built.err,
          ret |-> Some([id |-> va.objects + 1, count |-> built.count,
                        vertices |-> built.vertices, indices |-> built.indices])])

\* VertexArray.getRegisteredLayout(key, ...attributeNames)
RegisteredLayoutOf(va, key, attributeNames) ==
    IF key \in RegisteredKeys(va)
    THEN [va |-> va, err |-> OK, ret |-> Some(RegisteredLayout(va, key))]
    ELSE Then(GetBufferLayoutOf(va, IF attributeNames # <<>> THEN <<attributeNames>> ELSE <<>>),
              LAMBDA built :
              IF built.err # OK THEN [va |-> va, err |-> built.err, ret |-> None]
              ELSE LET layout == [id |-> va.objects + 1, count |-> built.count,
                                  vertices |-> built.vertices, indices |-> built.indices]
                   IN [va |-> [va EXCEPT !.objects = @ + 1,
                                         !.registeredViews =
                                            Append(@, [key |-> key, layout |-> layout])],
                       err |-> OK, ret |-> Some(layout)])

\* VertexArray.unregisterView(key): Map.delete
UnregisterView(va, key) ==
    [va |-> [va EXCEPT !.registeredViews =
                SelectSeq(@, LAMBDA entry : entry.key # key)],
     err |-> OK, ret |-> key \in RegisteredKeys(va)]

\* the loop of set() over the vertex buffers of one layout from the i-th on
RECURSIVE SetBuffersFrom(_, _, _, _, _)
SetBuffersFrom(va, vertices, index, hasChanged, i) ==
    IF i > Len(vertices) THEN [vertices |-> vertices, err |-> OK]
    ELSE Then(WriteVertexFrom(va, [view |-> vertices[i].view, err |-> OK], index,
                              vertices[i].stride, vertices[i].attributes, hasChanged, 1),
              LAMBDA r :
              IF r.err # OK
              THEN [vertices |-> [vertices EXCEPT ![i].view = r.view], err |-> r.err]
              ELSE SetBuffersFrom(va, [vertices EXCEPT ![i].view = r.view], index,
                                  hasChanged, i + 1))

\* the loop of set() over this.registeredViews.values() from the j-th on
RECURSIVE SetViewsFrom(_, _, _, _)
SetViewsFrom(va, index, hasChanged, j) ==
    IF j > Len(va.registeredViews) THEN [va |-> va, err |-> OK, ret |-> None]
    ELSE Then(SetBuffersFrom(va, va.registeredViews[j].layout.vertices, index, hasChanged, 1),
              LAMBDA r :
              IF r.err # OK
              THEN [va |-> [va EXCEPT !.registeredViews[j].layout.vertices = r.vertices],
                    err |-> r.err, ret |-> None]
              ELSE SetViewsFrom([va EXCEPT !.registeredViews[j].layout.vertices = r.vertices],
                                index, hasChanged, j + 1))

\* set() comparing after this.data[index] = newValue: nothing differs
HasChangedAfterStore(descriptor, oldValue, newValue) == {}

\* the keys set() finds changed: oldValue[key] !== newValue[key]
HasChanged(descriptor, oldValue, newValue) ==
    {descriptor[i].key : i \in {j \in DOMAIN descriptor :
                                    StrictNotEqual(oldValue[j], newValue[j])}}

\* VertexArray.set(index, newValue)
VertexArraySet(va, index, newValue) ==
    IF index < 0 \/ index >= va.vertexCount
    THEN [va |-> va, err |-> IndexOutOfRange, ret |-> None]
    ELSE SetViewsFrom([va EXCEPT !.data.changed =
                            [k \in DOMAIN @ \cup {index} |-> IF k = index THEN newValue ELSE @[k]]],
                      index, HasChanged(va.descriptor, DataAt(va, index), newValue), 1)

\* VertexArray.get(index, clone): the stored vertex itself, or a copy whose
\* Vectors are new objects
VertexArrayGet(va, index, clone) ==
    IF index < 0 \/ index >= va.vertexCount
    THEN [va |-> va, err |-> IndexOutOfRange, ret |-> None]
    ELSE IF ~clone THEN [va |-> va, err |-> OK, ret |-> Some(DataAt(va, index))]
    ELSE [va |-> [va EXCEPT !.objects = @ + Len(va.descriptor)],
          err |-> OK,
          ret |-> Some([i \in DOMAIN va.descriptor |->
                          IF DataAt(va, index)[i].id = 0 THEN DataAt(va, index)[i]
                          ELSE Value(va.objects + i, DataAt(va, index)[i].value)])]

\* Vector.set(axis, value) on the Vector object of the given identity:
\* every vertex that holds the object sees the new component
VectorSet(va, id, axis, v) ==
    LET set(vertex) ==
            [i \in DOMAIN vertex |->
                IF vertex[i].id = id /\ id > 0
                THEN Value(id, [vertex[i].value EXCEPT !.data[axis + 1] = v])
                ELSE vertex[i]]
    IN [va EXCEPT !.data.default = set(@),
                  !.data.changed = [k \in DOMAIN @ |-> set(@[k])]]

\* a vertex the application builds from new numbers and new Vectors
NewVertex(va, seed) ==
    [i \in DOMAIN va.descriptor |->
        IF FormatDimension(va.descriptor[i].format) > 1
        THEN Value(va.objects + i,
                   VectorNew([k \in 1..FormatDimension(va.descriptor[i].format) |-> seed]))
        ELSE Value(0, Number(seed))]

\* vertex descriptors of up to MaxAttributes properties: formats of every
\* size, a format the writers reject, one no switch knows, and undefined
VertexFormats == {"float32", "uint8x2", "float32x2", "float32x3", "float32x4",
                  "float64", "undefined"}
VertexDescriptors ==
    UNION {{[i \in 1..n |-> [key |-> Key(i), format |-> formats[i]]] :
                formats \in [1..n -> VertexFormats]} : n \in 1..MaxAttributes}
PositionColor == <<[key |-> "position", format |-> "float32x2"],
                   [key |-> "color", format |-> "float32x4"]>>
LayoutInputs ==
    {VertexArrayInput(descriptor, count, None, None) :
        descriptor \in VertexDescriptors \cup {PositionColor}, count \in {0, 1}}

\* the vertices handed to the constructor as an array: one value of the
\* property's dimension for each property, its Vector being object i
SuppliedVertex(descriptor, seed) ==
    [i \in DOMAIN descriptor |->
        IF FormatDimension(descriptor[i].format) > 1
        THEN Value(i, VectorNew([k \in 1..FormatDimension(descriptor[i].format) |-> seed]))
        ELSE Value(0, Number(seed))]

\* the vertex arrays whose registered layouts are followed: two default
\* vertices (one shared object), and one supplied vertex with a scalar
PositionWeight == <<[key |-> "position", format |-> "float32x2"],
                    [key |-> "weight", format |-> "float32"]>>
ViewInputs ==
    {VertexArrayInput(PositionColor, 2, None, None),
     VertexArrayInput(PositionWeight, 0, Some(<<SuppliedVertex(PositionWeight, 1)>>), None)}
ViewKeys == {"main", "shadow"}
ViewAttributeNames(descriptor) ==
    {<<>>, <<descriptor[1].key>>, <<descriptor[2].key>>}

\* is a format one of the VertexType names
Recognized(format) == FormatSize(format) > 0

\* the arguments of new VertexArray whose descriptor has a property of an
\* unrecognized format, the data a count or an array of vertices
UnknownVertexInputs ==
    {VertexArrayInput(descriptor, count, values, None) :
        descriptor \in {d \in VertexDescriptors :
                            \E i \in DOMAIN d : d[i].format = "float64"},
        count \in {0, 1},
        values \in {None}}
    \cup {VertexArrayInput(descriptor, 0, Some(<<SuppliedVertex(descriptor, 1)>>), None) :
        descriptor \in {d \in VertexDescriptors :
                            \E i \in DOMAIN d : d[i].format = "float64"}}

\* the attribute lists a layout is asked for: the keys of a descriptor in
\* any selection, alone or followed by the keys left out
SelectKeys(descriptor, chosen) ==
    SelectSeq([i \in DOMAIN descriptor |-> descriptor[i].key], LAMBDA key : key \in chosen)
AttributeLists(descriptor) ==
    {<<>>}
    \cup {<<SelectKeys(descriptor, chosen)>> : chosen \in SUBSET Keys(descriptor)}
    \cup {<<SelectKeys(descriptor, chosen), SelectKeys(descriptor, Keys(descriptor) \ chosen)>> :
            chosen \in SUBSET Keys(descriptor)}

----------------------------------------------------------------------------
(* The named registries: Sampler.registeredSamplers,                       *)
(* VertexArray.registeredVertexArrays and BindGroupLayout.registeredLayouts *)
(* are maps from label to wrapper object.  A wrapper object is its class   *)
(* and its identity; objects counts the wrappers made so far.              *)

Wrapper(class, id) == [class |-> class, id |-> id]

\* the maps after the modules are loaded: core/render/vertex.ts has
\* registered its vertex arrays and BindGroupLayout its empty layout
RegistryNew ==
    [Sampler |-> <<>>,
     VertexArray |-> [name \in RegisteredVertexArrays |->
                        Wrapper("VertexArray", IF name = "quadrilateral" THEN -1 ELSE -2)],
     BindGroupLayout |-> [name \in {"empty"} |-> Wrapper("BindGroupLayout", 0)],
     objects |-> 0]

AlreadyRegistered(class) ==
    IF class = "BindGroupLayout" THEN "BindGroupLayout already exists."
    ELSE class \o " is already registered."
NotFound(class) ==
    IF class = "BindGroupLayout" THEN "BindGroupLayout not found."
    ELSE class \o " is not registered."

\* registering without asking whether the label is taken
RegistrySetAlways(w, class, label, wrapper) ==
    IF w.err # OK THEN w
    ELSE Return([w EXCEPT !.registry[class] =
                    [l \in DOMAIN @ \cup {label} |-> IF l = label THEN wrapper ELSE @[l]]],
                wrapper)

\* if (map.has(label)) throw ...; map.set(label, wrapper)
RegistrySet(w, class, label, wrapper) ==
    IF w.err # OK THEN w
    ELSE IF label \in DOMAIN w.registry[class] THEN Throw(w, AlreadyRegistered(class))
    ELSE Return([w EXCEPT !.registry[class] =
                    [l \in DOMAIN @ \cup {label} |-> IF l = label THEN wrapper ELSE @[l]]],
                wrapper)

\* const x = map.get(label); if (!x) throw ...; return x
RegistryGet(w, class, label) ==
    IF w.err # OK THEN w
    ELSE IF label \notin DOMAIN w.registry[class] THEN Throw(w, NotFound(class))
    ELSE Return(w, w.registry[class][label])

\* new Sampler / new BindGroupLayout / new VertexArray: the next object
NewWrapper(w, class) == Wrapper(class, w.registry.objects + 1)
Made(w) == [w EXCEPT !.registry.objects = @ + 1]

\* Sampler.registerSampler(name, sampler)
RegisterSampler(w, name, sampler) == RegistrySet(w, "Sampler", name, sampler)

\* Sampler.createRegisteredSampler(name, descriptor): returns nothing
CreateRegisteredSampler(w, name) ==
    IF name \in DOMAIN w.registry.Sampler THEN Throw(w, AlreadyRegistered("Sampler"))
    ELSE Return(RegistrySet(Made(w), "Sampler", name, NewWrapper(w, "Sampler")), Null)

\* Sampler.getSampler(name)
GetSampler(w, name) == RegistryGet(w, "Sampler", name)

\* BindGroupLayout.registerLayout(label, entries)
RegisterLayout(w, label) ==
    IF label \in DOMAIN w.registry.BindGroupLayout
    THEN Throw(w, AlreadyRegistered("BindGroupLayout"))
    ELSE RegistrySet(Made(w), "BindGroupLayout", label, NewWrapper(w, "BindGroupLayout"))

\* BindGroupLayout.getLayout(label)
GetLayout(w, label) == RegistryGet(w, "BindGroupLayout", label)

\* BindGroupLayout.unregisterLayout(label)
UnregisterLayout(w, label) ==
    IF label \notin DOMAIN w.registry.BindGroupLayout
    THEN Throw(w, NotFound("BindGroupLayout"))
    ELSE Return([w EXCEPT !.registry.BindGroupLayout =
                    [l \in DOMAIN @ \ {label} |-> @[l]]], Null)

\* VertexArray.createRegisteredVertexArray(name, descriptor, data, indices):
\* the constructor may throw before the array is registered
CreateRegisteredVertexArray(w, name, input) ==
    IF name \in DOMAIN w.registry.VertexArray THEN Throw(w, AlreadyRegistered("VertexArray"))
    ELSE Then(VertexArrayNew(name, VertexCount(input), input.indices),
              LAMBDA va :
              IF va.err # OK THEN Throw(w, va.err)
              ELSE RegistrySet(Made(w), "VertexArray", name, NewWrapper(w, "VertexArray")))

\* VertexArray.registerVertexArray(name, vertexArray)
RegisterVertexArray(w, name, array) == RegistrySet(w, "VertexArray", name, array)

\* VertexArray.getVertexArray(name)
GetVertexArray(w, name) == RegistryGet(w, "VertexArray", name)

\* what the look-up of a label in a registry returns in the present state
GetEntry(class, label) ==
    LET r == RegistryGet(World, class, label) IN IF r.err = OK THEN Some(r.ret) ELSE None

\* the labels the application uses, and the wrappers it has made itself
Labels == {"empty", "quadrilateral", "main"}
Classes == {"Sampler", "VertexArray", "BindGroupLayout"}
OwnWrappers(class) == {Wrapper(class, id) : id \in {10, 11}}

----------------------------------------------------------------------------
(* BindGroup *)

\* BindGroupLayout.getEntryBindings: the binding index of an entry key
BindingOf(l, key) ==
    CHOOSE i \in 1..Len(LayoutEntries(l)) : LayoutEntries(l)[i].key = key

\* the entry loop of BindGroup.getGPUBindGroup: resolve every entry
\* resource into its device object; acc collects the texture handles whose
\* views the bind group holds
RECURSIVE ResolveEntries(_, _, _, _, _, _)
ResolveEntries(w, b, dev, renderTask, i, acc) ==
    LET d == BindGroupDescriptor(b) IN
    IF w.err # OK THEN w
    ELSE IF i > Len(d.entries) THEN Return(w, acc)
    ELSE LET entry == d.entries[i]
             entryType == LayoutEntries(d.layout)[BindingOf(d.layout, entry.key)].category
         IN CASE entryType = "buffer" ->
                    Then(GetGPUBuffer(w, entry.resource, dev), LAMBDA w1 :
                        ResolveEntries(w1, b, dev, renderTask, i + 1, acc))
              [] entryType = "sampler" ->
                    Then(GetGPUSampler(w, entry.resource, dev), LAMBDA w1 :
                        ResolveEntries(w1, b, dev, renderTask, i + 1, acc))
              [] entryType = "texture" ->
                    Then(GetGPUTextureView(w, entry.resource, dev, renderTask), LAMBDA w1 :
                        IF w1.err # OK THEN w1
                        ELSE ResolveEntries(w1, b, dev, renderTask, i + 1, acc \cup {w1.ret}))

\* getGPUBindGroup resolving the resources on every call
GetGPUBindGroupResolved(w, b, dev, renderTask) ==
    IF w.err # OK THEN w
    ELSE Then(GetGPUBindGroupLayout(w, BindGroupDescriptor(b).layout, dev), LAMBDA w1 :
         Then(ResolveEntries(w1, b, dev, renderTask, 1, {}), LAMBDA w2 :
            LET obj == [label |-> b, device |-> dev, handles |-> w2.ret]
            IN IF w2.err # OK THEN w2
               ELSE Return([w2 EXCEPT !.gpuBindGroup[b] = Some(obj)], obj)))

\* BindGroup.destroy
BindGroupDestroy(w, b) == [w EXCEPT !.gpuBindGroup[b] = None]

\* BindGroup.getGPUBindGroup
GetGPUBindGroup(w, b, dev, renderTask) ==
    IF w.err # OK THEN w
    ELSE IF IsSome(w.gpuBindGroup[b]) THEN Return(w, w.gpuBindGroup[b][1])
    ELSE Then(GetGPUBindGroupLayout(w, BindGroupDescriptor(b).layout, dev), LAMBDA w1 :
         Then(ResolveEntries(w1, b, dev, renderTask, 1, {}), LAMBDA w2 :
            LET obj == [label |-> b, device |-> dev, handles |-> w2.ret]
            IN IF w2.err # OK THEN w2
               ELSE Return([w2 EXCEPT !.gpuBindGroup[b] = Some(obj)], obj)))

----------------------------------------------------------------------------
(* Renderer: the pure parts of render() *)

NoPassConfigured == "No pass is currently configured."

\* Renderer.getGPUColorTargetStates: one target per attachment, the canvas
\* token taking the preferred format
GetGPUColorTargetStates(passInfo) ==
    IF ~IsSome(passInfo.colorAttachments) THEN <<Null>>
    ELSE [i \in 1..Len(passInfo.colorAttachments[1]) |->
            IF passInfo.colorAttachments[1][i] = "canvas" THEN "preferred-format"
            ELSE Null]

\* the pass default taking precedence over the step's own bind group
ResolveBindGroupDefaultFirst(render, passInfo, bindGroupIndex) ==
    IF At(passInfo.defaultBindGroups, bindGroupIndex) # Null
    THEN At(passInfo.defaultBindGroups, bindGroupIndex)
    ELSE At(render.bindGroups, bindGroupIndex)

\* render.bindGroups?.[i] ?? passInfo.defaultBindGroups?.[i]
ResolveBindGroup(render, passInfo, bindGroupIndex) ==
    IF At(render.bindGroups, bindGroupIndex) # Null
    THEN At(render.bindGroups, bindGroupIndex)
    ELSE At(passInfo.defaultBindGroups, bindGroupIndex)

\* the bind-group loop of render(): slot by slot, set the resolved bind
\* group if there is one.  ret is the sequence of [slot, bindGroup, handles]
\* of the setBindGroup commands encoded.
RECURSIVE EncodeBindGroups(_, _, _, _, _)
EncodeBindGroups(w, render, passInfo, bindGroupIndex, acc) ==
    IF w.err # OK THEN w
    ELSE IF bindGroupIndex >= Pipeline(render.pipeline).bindGroupCount THEN Return(w, acc)
    ELSE LET bindGroup == ResolveBindGroup(render, passInfo, bindGroupIndex)
         IN IF bindGroup = Null
            THEN EncodeBindGroups(w, render, passInfo, bindGroupIndex + 1, acc)
            ELSE Then(GetGPUBindGroup(w, bindGroup, device, NoTask), LAMBDA w1 :
                    IF w1.err # OK THEN w1
                    ELSE EncodeBindGroups(w1, render, passInfo, bindGroupIndex + 1,
                            Append(acc, [slot |-> bindGroupIndex, bindGroup |-> bindGroup,
                                         handles |-> w1.ret.handles])))

\* vertices.forEach(setVertexBuffer): create every vertex buffer
RECURSIVE EncodeVertexBuffers(_, _, _)
EncodeVertexBuffers(w, vertices, slot) ==
    IF w.err # OK \/ slot > Len(vertices) THEN w
    ELSE Then(GetGPUBuffer(w, vertices[slot], device), LAMBDA w1 :
            EncodeVertexBuffers(w1, vertices, slot + 1))

\* render() issuing draw(count) whether or not there is an index stream
DrawCommandNeverIndexed(layout) ==
    [indexed |-> FALSE, count |-> layout.count, indexType |-> Null]

\* render() drawing as many indices as the index stream holds
DrawCommandIndexCount(layout) ==
    IF IsSome(layout.indices)
    THEN [indexed |-> TRUE, indexType |-> layout.indices[1].type,
          count |-> Len((CHOOSE va \in IndexedArrays :
                            va.indices[1].view = layout.indices[1].view).indices[1].data)]
    ELSE [indexed |-> FALSE, count |-> layout.count, indexType |-> Null]

\* the draw branch of render(): indexed when the layout has an index stream
DrawCommand(layout) ==
    IF IsSome(layout.indices)
    THEN [indexed |-> TRUE, count |-> layout.count, indexType |-> layout.indices[1].type]
    ELSE [indexed |-> FALSE, count |-> layout.count, indexType |-> Null]

\* the body of the step loop of render(): encode one draw step.  ret is
\* the encoded step.
EncodeStep(w, passInfo, render, colorTargetStates) ==
    Then(GetRenderPipeline(w, render.pipeline, device, colorTargetStates), LAMBDA w1 :
    Then(EncodeBindGroups(w1, render, passInfo, 0, <<>>), LAMBDA w2 :
    Then(IF w2.err # OK THEN w2
         ELSE IF render.buffer.name # Null THEN GetRegisteredLayout(w2, render.buffer.name)
         ELSE Return(w2, render.buffer.layout[1]), LAMBDA w3 :
    LET layout == w3.ret IN
    Then(IF w3.err # OK THEN w3 ELSE EncodeVertexBuffers(w3, layout.vertices, 1), LAMBDA w4 :
    Then(IF w4.err # OK \/ ~IsSome(layout.indices) THEN w4
         ELSE GetGPUBuffer(w4, layout.indices[1].view, device), LAMBDA w5 :
       IF w5.err # OK THEN w5
       ELSE Return(w5, [id |-> render.id, pipeline |-> render.pipeline,
                        renderPipeline |-> w1.ret,
                        bindGroups |-> w2.ret, draw |-> DrawCommand(layout)]))))))

RECURSIVE EncodeSteps(_, _, _, _, _)
EncodeSteps(w, passInfo, colorTargetStates, i, acc) ==
    IF w.err # OK THEN w
    ELSE IF i > Len(passInfo.renderSteps) THEN Return(w, acc)
    ELSE Then(EncodeStep(w, passInfo, passInfo.renderSteps[i], colorTargetStates), LAMBDA w1 :
            EncodeSteps(w1, passInfo, colorTargetStates, i + 1, Append(acc, w1.ret)))

\* the pass loop of render(): a pass without steps is skipped.  ret is the
\* sequence of encoded passes.
RECURSIVE EncodePasses(_, _, _, _)
EncodePasses(w, queue, i, acc) ==
    IF w.err # OK THEN w
    ELSE IF i > Len(queue) THEN Return(w, acc)
    ELSE IF Len(queue[i].renderSteps) = 0 THEN EncodePasses(w, queue, i + 1, acc)
    ELSE Then(EncodeSteps(w, queue[i], GetGPUColorTargetStates(queue[i]), 1, <<>>), LAMBDA w1 :
            EncodePasses(w1, queue, i + 1,
                Append(acc, [id |-> queue[i].id, label |-> queue[i].label, steps |-> w1.ret])))

\* the texture handles a command buffer references through its bind groups
HandlesOf(encoded) ==
    UNION {UNION {UNION {encoded[i].steps[j].bindGroups[k].handles :
                            k \in 1..Len(encoded[i].steps[j].bindGroups)} :
                     j \in 1..Len(encoded[i].steps)} :
              i \in 1..Len(encoded)}

\* device.queue.submit: the command buffer joins the GPU queue (operations
\* that reference no texture are not tracked)
Submit(w, encoded) ==
    IF HandlesOf(encoded) = {} THEN w
    ELSE [w EXCEPT !.gpuQueue = Append(@, [kind |-> "draw", handles |-> HandlesOf(encoded)])]

\* Renderer.render up to the submission.  ret is the command buffer.
RenderWorld(w, queue) ==
    Then(EncodePasses(w, queue, 1, <<>>), LAMBDA w1 :
        IF w1.err # OK THEN w1 ELSE Return(Submit(w1, w1.ret), w1.ret))

----------------------------------------------------------------------------
(* The calls the application makes.  A RenderInfo or pass object is        *)
(* identified by id, the number of the draw() or beginPass() call that     *)
(* handed it over.                                                         *)

Named(name) == [name |-> name, layout |-> None]
Inline(layout) == [name |-> Null, layout |-> Some(layout)]

PassInputs ==
    {[label |-> "main", colorAttachments |-> Some(<<"canvas">>),
      defaultBindGroups |-> Some(<<"bgB", "bgA">>)],
     [label |-> "plain", colorAttachments |-> None, defaultBindGroups |-> None]}

DrawInputs ==
    {[pipeline |-> "pipe2", bindGroups |-> Some(<<"bgA", Null>>),
      buffer |-> Named("fullscreen-triangle")],
     [pipeline |-> "pipe2", bindGroups |-> None,
      buffer |-> Inline(GetBufferLayout(TriIndexed))],
     [pipeline |-> "pipeAuto", bindGroups |-> Some(<<"bgB">>),
      buffer |-> Named("fullscreen-triangle")],
     [pipeline |-> "pipeAuto", bindGroups |-> None, buffer |-> Named("missing")]}

TexPass ==
    [label |-> "textured", colorAttachments |-> Some(<<"canvas">>),
     defaultBindGroups |-> Some(<<"bgTex">>)]

TexDraw ==
    [pipeline |-> "pipeTex", bindGroups |-> None, buffer |-> Named("fullscreen-triangle")]

Call(op, result) ==
    [op |-> op, result |-> result, submitted |-> <<>>, queueBefore |-> <<>>,
     stackBefore |-> <<>>, endOrder |-> <<>>, accepted |-> <<>>,
     device |-> Null, cached |-> None, ret |-> None]

\* is the frame closure inside the application callback
InCallback == pc > 0 /\ Len(frameTrace) = pc
\* JavaScript is single-threaded: the application calls in from the frame
\* callback or from a task of its own while no frame closure runs
AppMayCall == pc = 0 \/ InCallback

Commit(outcome) ==
    \E w \in {outcome} :
    /\ gpuSampler' = w.gpuSampler
    /\ gpuShaderModule' = w.gpuShaderModule
    /\ renderPipeline' = w.renderPipeline
    /\ bglLayout' = w.bglLayout
    /\ gpuBindGroup' = w.gpuBindGroup
    /\ viewGpu' = w.viewGpu
    /\ registeredViews' = w.registeredViews
    /\ tex' = w.tex
    /\ destructionQueue' = w.destructionQueue
    /\ destroyWaiters' = w.destroyWaiters
    /\ gpuQueue' = w.gpuQueue
    /\ taskState' = w.taskState
    /\ nextHandle' = w.nextHandle
    /\ destroyed' = w.destroyed
    /\ registered' = w.registered
    /\ gpuTextures' = w.gpuTextures
    /\ loaderCalls' = w.loaderCalls
    /\ invalidated' = w.invalidated
    /\ structInput' = w.structInput
    /\ bstruct' = w.bstruct
    /\ scratch' = w.scratch
    /\ floatInput' = w.floatInput
    /\ verticesBuffer' = w.verticesBuffer
    /\ vaInput' = w.vaInput
    /\ vertexArray' = w.vertexArray
    /\ registry' = w.registry
    /\ gestureTarget' = w.gestureTarget

\* the state of the world when the running JavaScript task ends: the
\* microtask checkpoint has run
EndOfTask(w) == Then(ResumeDirectLoads(w), LAMBDA w1 : RunMicrotasks(w1))

PassesAlive == Len(configuringStack) + Len(passQueue)

\* Renderer.currentPass: the id of the pass on top of the stack, 0 for null
CurrentPass ==
    IF Len(configuringStack) = 0 THEN 0
    ELSE configuringStack[Len(configuringStack)].id

\* Renderer.beginPass
BeginPassStack(stack, info, id) ==
    Append(stack, [id |-> id, label |-> info.label,
                   colorAttachments |-> info.colorAttachments,
                   defaultBindGroups |-> info.defaultBindGroups,
                   renderSteps |-> <<>>])

BeginPass(info) ==
    /\ AppMayCall
    /\ PassesAlive < MaxPasses
    /\ configuringStack' = BeginPassStack(configuringStack, info, beginSeq + 1)
    /\ beginSeq' = beginSeq + 1
    /\ lastCall' = Call("beginPass", OK)
    /\ UNCHANGED <<passQueue, accepted, endOrder, loopVars, worldVars, earlyFree>>

\* endPass() putting the pass at the head of the queue
EndPassResultUnshift(stack, queue) ==
    IF Len(stack) = 0
    THEN [stack |-> stack, queue |-> queue, err |-> NoPassConfigured]
    ELSE [stack |-> SubSeq(stack, 1, Len(stack) - 1),
          queue |-> <<stack[Len(stack)]>> \o queue, err |-> OK]

\* Renderer.endPass: the stack and the queue it leaves, and what it throws
EndPassResult(stack, queue) ==
    IF Len(stack) = 0
    THEN [stack |-> stack, queue |-> queue, err |-> NoPassConfigured]
    ELSE [stack |-> SubSeq(stack, 1, Len(stack) - 1),
          queue |-> Append(queue, stack[Len(stack)]), err |-> OK]

EndPass ==
    LET r == EndPassResult(configuringStack, passQueue) IN
    /\ AppMayCall
    /\ configuringStack' = r.stack
    /\ passQueue' = r.queue
    /\ endOrder' = IF r.err = OK THEN Append(endOrder, CurrentPass)
                   ELSE endOrder
    /\ lastCall' = Call("endPass", r.err)
    /\ UNCHANGED <<accepted, beginSeq, loopVars, worldVars, earlyFree>>

\* draw() returning silently when no pass is configured
DrawResultSilent(stack, info) ==
    IF Len(stack) = 0
    THEN [stack |-> stack, err |-> OK]
    ELSE [stack |-> [stack EXCEPT ![Len(stack)].renderSteps = Append(@, info)],
          err |-> OK]

\* draw() overwriting the steps of the pass instead of appending
DrawResultOverwrite(stack, info) ==
    IF Len(stack) = 0
    THEN [stack |-> stack, err |-> NoPassConfigured]
    ELSE [stack |-> [stack EXCEPT ![Len(stack)].renderSteps = <<info>>],
          err |-> OK]

\* draw() appending to the outermost pass being configured
DrawResultOutermost(stack, info) ==
    IF Len(stack) = 0
    THEN [stack |-> stack, err |-> NoPassConfigured]
    ELSE [stack |-> [stack EXCEPT ![1].renderSteps = Append(@, info)],
          err |-> OK]

\* Renderer.draw: the stack it leaves, and what it throws
DrawResult(stack, info) ==
    IF Len(stack) = 0
    THEN [stack |-> stack, err |-> NoPassConfigured]
    ELSE [stack |-> [stack EXCEPT ![Len(stack)].renderSteps = Append(@, info)],
          err |-> OK]

Draw(info) ==
    LET render == [id |-> Len(accepted) + 1, pipeline |-> info.pipeline,
                   bindGroups |-> info.bindGroups, buffer |-> info.buffer]
        r == DrawResult(configuringStack, render)
    IN
    /\ AppMayCall
    /\ Len(configuringStack) = 0 \/ Len(accepted) < MaxDraws
    /\ configuringStack' = r.stack
    /\ accepted' = IF r.err = OK
                   THEN Append(accepted, [id |-> render.id, pass |-> CurrentPass])
                   ELSE accepted
    /\ lastCall' = Call("draw", r.err)
    /\ UNCHANGED <<passQueue, beginSeq, endOrder, loopVars, worldVars, earlyFree>>

\* render() clearing the queue and leaving the configuration stack
RenderResultKeepStack(w, stack, queue) ==
    Then(RenderWorld(w, queue), LAMBDA w1 :
        IF w1.err # OK
        THEN [w |-> w1, stack |-> stack, queue |-> queue, err |-> w1.err, submitted |-> <<>>]
        ELSE [w |-> w1, stack |-> stack, queue |-> <<>>, err |-> OK, submitted |-> w1.ret])

\* Renderer.render: encode the queue, submit, clear the stack and the
\* queue.  An exception leaves both as they were.
RenderResult(w, stack, queue) ==
    Then(RenderWorld(w, queue), LAMBDA w1 :
        IF w1.err # OK
        THEN [w |-> w1, stack |-> stack, queue |-> queue, err |-> w1.err, submitted |-> <<>>]
        ELSE [w |-> w1, stack |-> <<>>, queue |-> <<>>, err |-> OK, submitted |-> w1.ret])

RenderEffect(r) ==
    /\ configuringStack' = r.stack
    /\ passQueue' = r.queue
    /\ accepted' = IF r.err = OK THEN <<>> ELSE accepted
    /\ beginSeq' = IF r.err = OK THEN 0 ELSE beginSeq
    /\ endOrder' = IF r.err = OK THEN <<>> ELSE endOrder
    /\ lastCall' = [op |-> "render", result |-> r.err, submitted |-> r.submitted,
                    queueBefore |-> passQueue, stackBefore |-> configuringStack,
                    endOrder |-> endOrder, accepted |-> accepted,
                    device |-> Null, cached |-> None, ret |-> None]

\* render() called by the application while no frame closure runs
Render ==
    \E r \in {RenderResult(World, configuringStack, passQueue)} :
    /\ pc = 0
    /\ RenderEffect(r)
    /\ Commit(EndOfTask([r.w EXCEPT !.err = OK]))
    /\ UNCHANGED <<loopVars, earlyFree>>

----------------------------------------------------------------------------
(* The animation-frame loop of run(), and the browser that drives it *)

\* the frame closure flushing before it drains
LoopBodyRenderFirst == <<"callback", "render", "drain">>

\* the statements of the frame closure of run(), after the time stamp
\* bookkeeping and before the next requestAnimationFrame
LoopBody == <<"callback", "drain", "render">>

\* the resources a step may use up stay within the bounds of the model
WithinBounds(w) ==
    /\ w.nextHandle <= MaxHandles
    /\ Len(w.taskState) <= MaxTasks
    /\ Len(w.gpuQueue) <= MaxGpuOps
    /\ \A t \in Textures : \A h \in DOMAIN w.tex[t].currentGPUTask :
          Len(w.tex[t].currentGPUTask[h]) <= MaxChain
    /\ \A t \in Textures : Len(w.tex[t].loading) <= MaxLoads /\ w.loaderCalls[t] <= MaxLoads

\* requestAnimationFrame: the id the browser gives the new request
RequestAnimationFrame(pending) ==
    CHOOSE id \in 1..(MaxPending + 1) :
        /\ id \notin pending \cup {loopId}
        /\ \A other \in 1..(MaxPending + 1) :
              other \notin pending \cup {loopId} => id <= other

\* is the closure between two statements, the next one being LoopBody[pc]
AtStatement(name) ==
    /\ pc > 0
    /\ pc <= Len(LoopBody)
    /\ Len(frameTrace) = pc - 1
    /\ LoopBody[pc] = name

\* a closure that catches what a statement throws and carries on
AfterStatementCaught(position, err) == position + 1

\* where the closure is after a statement: nothing in it catches an
\* exception, so a statement that throws ends the closure
AfterStatement(position, err) == IF err = OK THEN position + 1 ELSE 0

\* Renderer.run
Run ==
    /\ AppMayCall
    /\ Cardinality(rafPending) + (IF pc > 0 THEN 1 ELSE 0) < MaxPending
    /\ loop' = TRUE
    /\ loopId' = RequestAnimationFrame(rafPending)
    /\ rafPending' = rafPending \cup {RequestAnimationFrame(rafPending)}
    /\ lastCall' = Call("run", OK)
    /\ UNCHANGED <<pc, frameTrace, rendererVars, worldVars, earlyFree>>

\* Renderer.stop
Stop ==
    /\ AppMayCall
    /\ rafPending' = rafPending \ {loopId}
    /\ loopId' = 0
    /\ loop' = FALSE
    /\ lastCall' = Call("stop", OK)
    /\ UNCHANGED <<pc, frameTrace, rendererVars, worldVars, earlyFree>>

\* the browser fires a pending animation-frame request
FrameBegin ==
    /\ pc = 0
    /\ \E id \in rafPending : rafPending' = rafPending \ {id}
    /\ pc' = 1
    /\ frameTrace' = <<>>
    /\ UNCHANGED <<loop, loopId, lastCall, rendererVars, worldVars, earlyFree>>

\* callback(deltatime): the closure enters the application callback
StepCallback ==
    /\ AtStatement("callback")
    /\ frameTrace' = Append(frameTrace, "callback")
    /\ UNCHANGED <<pc, loop, loopId, rafPending, lastCall, rendererVars, worldVars,
                   earlyFree>>

\* the application callback returns
CallbackReturn ==
    /\ InCallback
    /\ pc' = pc + 1
    /\ UNCHANGED <<frameTrace, loop, loopId, rafPending, lastCall, rendererVars,
                   worldVars, earlyFree>>

\* the application callback throws: the rest of the closure is skipped
CallbackThrow ==
    /\ InCallback
    /\ pc' = AfterStatement(pc, "Error")
    /\ lastCall' = Call("callback", "Error")
    /\ Commit(EndOfTask(World))
    /\ UNCHANGED <<frameTrace, loop, loopId, rafPending, rendererVars, earlyFree>>

\* the handles in the destruction queue that an operation still in the GPU
\* queue refers to
StillInUse(w) ==
    {h \in Range(w.destructionQueue) : \E i \in 1..Len(w.gpuQueue) : h \in w.gpuQueue[i].handles}

\* Texture.destroyTextures() in the closure
StepDrain ==
    /\ AtStatement("drain")
    /\ Commit(DestroyTextures(World))
    /\ earlyFree' = earlyFree \cup StillInUse(World)
    /\ frameTrace' = Append(frameTrace, "drain")
    /\ pc' = pc + 1
    /\ UNCHANGED <<loop, loopId, rafPending, lastCall, rendererVars>>

\* this.render() in the closure; an exception ends the closure
StepRender ==
    \E r \in {RenderResult(World, configuringStack, passQueue)} :
    /\ AtStatement("render")
    /\ WithinBounds(r.w)
    /\ RenderEffect(r)
    /\ frameTrace' = Append(frameTrace, "render")
    /\ pc' = AfterStatement(pc, r.err)
    /\ Commit(IF r.err = OK THEN r.w ELSE EndOfTask([r.w EXCEPT !.err = OK]))
    /\ UNCHANGED <<loop, loopId, rafPending, earlyFree>>

\* this.loopId = requestAnimationFrame(this.loop!), the end of the closure.
\* After stop() this.loop is null and requestAnimationFrame throws.
FrameEnd ==
    /\ pc = Len(LoopBody) + 1
    /\ pc' = 0
    /\ IF loop
       THEN /\ loopId' = RequestAnimationFrame(rafPending)
            /\ rafPending' = rafPending \cup {RequestAnimationFrame(rafPending)}
            /\ lastCall' = Call("frame", OK)
       ELSE /\ UNCHANGED <<loopId, rafPending>>
            /\ lastCall' = Call("frame", "TypeError")
    /\ Commit(EndOfTask(World))
    /\ UNCHANGED <<loop, frameTrace, rendererVars, earlyFree>>

----------------------------------------------------------------------------
(* The texture calls of the application, the GPU and the task promises *)

\* a promise the caller makes and hands to getGPUTextureView
CallerTask == [kind |-> "caller", awaits |-> 0, state |-> "pending"]

\* texture.getGPUTextureView(device, renderTask) with a promise the
\* caller has just made
AppGetGPUTextureView(t) ==
    \E w0 \in {[World EXCEPT !.taskState = Append(@, CallerTask)]} :
    \E w1 \in {GetGPUTextureView(w0, t, device, Len(w0.taskState))} :
    /\ AppMayCall
    /\ WithinBounds(w1)
    /\ Commit(IF pc = 0 THEN EndOfTask([w1 EXCEPT !.err = OK]) ELSE [w1 EXCEPT !.err = OK])
    /\ lastCall' = Call("getGPUTextureView", w1.err)
    /\ UNCHANGED <<loopVars, rendererVars, earlyFree>>

\* the handle the texture holds, noted as invalidated
Invalidate(w, t) ==
    [w EXCEPT !.invalidated = @ \cup ({tex[t].texture} \ {0})]

\* texture.unload()
AppUnload(t) ==
    \E w1 \in {Invalidate(Unload(World, t), t)} :
    /\ AppMayCall
    /\ Commit(IF pc = 0 THEN EndOfTask(w1) ELSE w1)
    /\ lastCall' = Call("unload", OK)
    /\ UNCHANGED <<loopVars, rendererVars, earlyFree>>

\* texture.setSize(size)
AppSetSize(t, size) ==
    \E w1 \in {Invalidate(SetSize(World, t, size), t)} :
    /\ AppMayCall
    /\ Commit(IF pc = 0 THEN EndOfTask(w1) ELSE w1)
    /\ lastCall' = Call("setSize", OK)
    /\ UNCHANGED <<loopVars, rendererVars, earlyFree>>

\* texture.setSource(source)
AppSetSource(t, source) ==
    \E w1 \in {Invalidate(SetSource(World, t, source), t)} :
    /\ AppMayCall
    /\ Commit(IF pc = 0 THEN EndOfTask(w1) ELSE w1)
    /\ lastCall' = Call("setSource", OK)
    /\ UNCHANGED <<loopVars, rendererVars, earlyFree>>

\* texture.load(), up to its await
AppLoad(t) ==
    \E w1 \in {Load(World, t)} :
    /\ AppMayCall
    /\ WithinBounds(w1)
    /\ Commit(IF pc = 0 THEN EndOfTask(w1) ELSE w1)
    /\ lastCall' = [Call("load", OK) EXCEPT
                        !.cached = IF tex[t].source = Null THEN None
                                   ELSE Some([tex |-> tex[t], loaderCalls |-> loaderCalls[t]])]
    /\ UNCHANGED <<loopVars, rendererVars, earlyFree>>

\* the promise a lazy loader gave is fulfilled, in a task of its own, and
\* the load() call that waited for it resumes
LoadResume(t, i) ==
    \E w1 \in {LoadContinuation(World, t, i)} :
    /\ pc = 0
    /\ tex[t].loading[i].lazy
    /\ WithinBounds(w1)
    /\ Commit(EndOfTask(w1))
    /\ lastCall' = Call("loadResume", OK)
    /\ UNCHANGED <<loopVars, rendererVars, earlyFree>>

\* the GPU completes the oldest operation of its queue; the work-done
\* promises that waited for it have one operation less to wait for
GPUComplete ==
    /\ gpuQueue # <<>>
    /\ Commit([World EXCEPT
          !.gpuQueue = Tail(@),
          !.taskState = [i \in DOMAIN @ |->
                            IF @[i].awaits > 0 THEN [@[i] EXCEPT !.awaits = @ - 1]
                            ELSE @[i]]])
    /\ UNCHANGED <<loopVars, rendererVars, lastCall, earlyFree>>

\* a task promise is fulfilled, in a task of its own: a work-done promise
\* once the operations it waited for have completed, a promise of the
\* caller's whenever the caller fulfils it
ResolveTask(i) ==
    /\ pc = 0
    /\ taskState[i].state = "pending"
    /\ taskState[i].awaits = 0
    /\ Commit(EndOfTask([World EXCEPT !.taskState[i].state = "resolved"]))
    /\ UNCHANGED <<loopVars, rendererVars, lastCall, earlyFree>>

----------------------------------------------------------------------------
(* The application asking a wrapper for its device object *)

\* a request for a device object: the device asked for, the object the
\* wrapper had cached before the call, and the object returned
GetCall(op, dev, cached, w) ==
    [Call(op, w.err) EXCEPT !.device = dev, !.cached = cached,
                            !.ret = IF w.err = OK THEN Some(w.ret) ELSE None]

GetEffect(op, dev, cached, outcome) ==
    \E w \in {outcome} :
    /\ AppMayCall
    /\ WithinBounds(w)
    /\ lastCall' = GetCall(op, dev, cached, w)
    /\ Commit(IF pc = 0 THEN EndOfTask([w EXCEPT !.err = OK]) ELSE [w EXCEPT !.err = OK])
    /\ UNCHANGED <<loopVars, rendererVars, earlyFree>>

AppGetGPUSampler(s, dev) ==
    GetEffect("getGPUSampler", dev, gpuSampler[s], GetGPUSampler(World, s, dev))

AppGetGPUShaderModule(m, dev) ==
    GetEffect("getGPUShaderModule", dev, gpuShaderModule[m], GetGPUShaderModule(World, m, dev))

AppGetRenderPipeline(p, dev) ==
    GetEffect("getRenderPipeline", dev, renderPipeline[p],
              GetRenderPipeline(World, p, dev, <<"canvas">>))

\* a task promise the caller handed to getGPUTextureView is rejected: the
\* chains it is part of are rejected, and the continuations registered
\* with then(onFulfilled) alone never run
RejectTask(i) ==
    /\ pc = 0
    /\ taskState[i].kind = "caller"
    /\ taskState[i].state = "pending"
    /\ Commit(EndOfTask([World EXCEPT !.taskState[i].state = "rejected"]))
    /\ UNCHANGED <<loopVars, rendererVars, lastCall, earlyFree>>

AppGetGPUBindGroupLayout(l, dev) ==
    GetEffect("getGPUBindGroupLayout", dev, bglLayout[l], GetGPUBindGroupLayout(World, l, dev))

AppGetGPUBindGroup(b, dev) ==
    GetEffect("getGPUBindGroup", dev, gpuBindGroup[b], GetGPUBindGroup(World, b, dev, NoTask))

\* bindGroup.destroy()
AppBindGroupDestroy(b) ==
    /\ AppMayCall
    /\ Commit(IF pc = 0 THEN EndOfTask(BindGroupDestroy(World, b))
              ELSE BindGroupDestroy(World, b))
    /\ lastCall' = [Call("BindGroup.destroy", OK) EXCEPT !.cached = gpuBindGroup[b]]
    /\ UNCHANGED <<loopVars, rendererVars, earlyFree>>

AppGetGPUBuffer(v, dev) ==
    GetEffect("getGPUBuffer", dev, viewGpu[v], GetGPUBuffer(World, v, dev))

\* texture.getGPUTexture(device); the GPUTexture is described by its handle
\* and the device that made it
AppGetGPUTexture(t, dev) ==
    LET object(x) == [handle |-> x.tex[t].texture, device |-> x.tex[t].accessDevice]
    IN \E w \in {GetGPUTexture(World, t, dev)} :
          GetEffect("getGPUTexture", dev,
                    IF tex[t].texture = 0 THEN None ELSE Some(object(World)),
                    [w EXCEPT !.ret = object(w)])

----------------------------------------------------------------------------
(* The application making and using a BufferedStruct and a StructedView *)

\* new BufferedStruct(label, descriptor, data?, synchronize)
StructConstruct ==
    /\ bstruct = None
    /\ \E made \in {BufferedStructNew(structInput.descriptor,
                        IF structInput.data = "supplied"
                        THEN Some(SuppliedData(structInput.descriptor, 1)) ELSE None,
                        structInput.synchronize)} :
        /\ Commit([World EXCEPT !.bstruct = IF made.struct.err = OK THEN Some(made) ELSE None])
        /\ lastCall' = Call("BufferedStruct", made.struct.err)
    /\ UNCHANGED <<loopVars, rendererVars, earlyFree>>

\* struct.set(key, value) of the i-th field.  With a buffer of no bytes the
\* DataView throws a RangeError after Struct.set has stored the value.
StructSetField(i, seed) ==
    /\ IsSome(bstruct)
    /\ i <= Len(bstruct[1].struct.descriptor)
    /\ \E value \in {ValueOf(bstruct[1].struct.descriptor[i].type, seed)} :
         IF bstruct[1].struct.size = NaN
         THEN /\ Commit([World EXCEPT !.bstruct[1].struct = StructSet(@, i, value)])
              /\ lastCall' = [Call("set", "RangeError") EXCEPT !.cached = Some(bstruct[1].view)]
         ELSE /\ Commit([World EXCEPT !.bstruct[1] = BufferedStructSet(@, i, value)])
              /\ lastCall' = [Call("set", OK) EXCEPT !.cached = Some(bstruct[1].view)]
    /\ UNCHANGED <<loopVars, rendererVars, earlyFree>>

\* struct.getGPUBuffer(device)
StructGetGPUBuffer(dev) ==
    /\ IsSome(bstruct)
    /\ Commit([World EXCEPT !.bstruct[1].view = ViewGetGPUBuffer(@, dev)])
    /\ lastCall' = [Call("getGPUBuffer", OK) EXCEPT !.device = dev]
    /\ UNCHANGED <<loopVars, rendererVars, earlyFree>>

\* offset += view.append(offset, value), and the same with appendFloat,
\* appendSignedInteger and appendUnsignedInteger, while the value fits
Appended(r, value) ==
    /\ Len(scratch.log) < MaxAppends
    /\ scratch.cursor + r.ret <= Len(scratch.view.buffer)
    /\ Commit([World EXCEPT !.scratch =
            [view |-> r.view, cursor |-> scratch.cursor + r.ret,
             log |-> Append(scratch.log,
                        [offset |-> scratch.cursor, value |-> value, ret |-> r.ret])]])
    /\ lastCall' = Call("append", OK)
    /\ UNCHANGED <<loopVars, rendererVars, earlyFree>>

ViewAppend(type) ==
    \E value \in {ValueOf(type, 1)} :
    \E r \in {append(scratch.view, scratch.cursor, value)} : Appended(r, value)

ViewAppendNumber(encoding) ==
    \E r \in {AppendNumber(scratch.view, encoding, scratch.cursor, 1)} :
        Appended(r, [kind |-> "number", v |-> 1, encoding |-> encoding])

----------------------------------------------------------------------------
(* The application writing normalized bytes into a VerticesView *)

\* the call of a writer with the input number, at offset 0
Written(op, bytes) ==
    /\ Commit([World EXCEPT !.verticesBuffer = SetBytes(@, 0, bytes)])
    /\ lastCall' = [Call(op, OK) EXCEPT !.ret = Some(Len(bytes))]
    /\ UNCHANGED <<loopVars, rendererVars, earlyFree>>

\* view.setNormalizedSignedByte(0, value)
SetNormalizedSignedByte ==
    Written("setNormalizedSignedByte", <<EncodeSnorm8(floatInput)>>)

\* view.setNormalizedSignedByteArray(0, [value, value])
SetNormalizedSignedByteArray ==
    Written("setNormalizedSignedByteArray",
            <<EncodeSnorm8(floatInput), EncodeSnorm8(floatInput)>>)

\* view.setNormalizedUnsignedByte(0, value)
SetNormalizedUnsignedByte ==
    Written("setNormalizedUnsignedByte", <<EncodeUnorm8(floatInput)>>)

\* view.setNormalizedUnsignedByteArray(0, [value, value])
SetNormalizedUnsignedByteArray ==
    Written("setNormalizedUnsignedByteArray",
            <<EncodeUnorm8(floatInput), EncodeUnorm8(floatInput)>>)

----------------------------------------------------------------------------
(* The application making and using a VertexArray *)

\* new VertexArray("va", descriptor, data, indices)
VertexArrayConstruct ==
    /\ vertexArray = None
    /\ \E va \in {VertexArrayOfInput("va", vaInput)} :
        /\ Commit([World EXCEPT !.vertexArray = Some(va)])
        /\ lastCall' = Call("new VertexArray", va.err)
    /\ UNCHANGED <<loopVars, rendererVars, earlyFree>>

\* a call on a named registry: the class, the label, the map before the
\* call, the outcome; a run uses one of the registries
RegistryCall(op, class, label, outcome) ==
    \E w \in {outcome} :
    /\ \A c \in Classes \ {class} : registry[c] = RegistryNew[c]
    /\ w.registry.objects <= MaxWrappers
    /\ Commit(w)
    /\ lastCall' = [Call(op, w.err) EXCEPT
                        !.device = class,
                        !.cached = Some([label |-> label, before |-> registry]),
                        !.ret = IF w.err = OK THEN Some(w.ret) ELSE None]
    /\ UNCHANGED <<loopVars, rendererVars, earlyFree>>

AppRegisterSampler(name, sampler) ==
    RegistryCall("register", "Sampler", name, RegisterSampler(World, name, sampler))
AppCreateRegisteredSampler(name) ==
    RegistryCall("create", "Sampler", name, CreateRegisteredSampler(World, name))
AppGetSampler(name) ==
    RegistryCall("get", "Sampler", name, GetSampler(World, name))
AppRegisterLayout(label) ==
    RegistryCall("create", "BindGroupLayout", label, RegisterLayout(World, label))
AppGetLayout(label) ==
    RegistryCall("get", "BindGroupLayout", label, GetLayout(World, label))
AppUnregisterLayout(label) ==
    RegistryCall("unregister", "BindGroupLayout", label, UnregisterLayout(World, label))
AppCreateRegisteredVertexArray(name, input) ==
    RegistryCall("create", "VertexArray", name, CreateRegisteredVertexArray(World, name, input))
AppRegisterVertexArray(name, va) ==
    RegistryCall("register", "VertexArray", name, RegisterVertexArray(World, name, va))
AppGetVertexArray(name) ==
    RegistryCall("get", "VertexArray", name, GetVertexArray(World, name))

\* vertexArray.getBufferLayout(...lists)
AppGetBufferLayout(lists) ==
    /\ IsSome(vertexArray) /\ vertexArray[1].err = OK
    /\ \E r \in {GetBufferLayoutOf(vertexArray[1], lists)} :
        lastCall' = [Call("getBufferLayout", r.err) EXCEPT
                        !.cached = Some(lists), !.ret = Some(r.vertices)]
    /\ UNCHANGED <<worldVars, loopVars, rendererVars, earlyFree>>

\* VertexArray.getStrideAndAttributes(descriptor, startLocation, properties)
AppGetStrideAndAttributes(startLocation, properties) ==
    /\ IsSome(vertexArray) /\ vertexArray[1].err = OK
    /\ \E r \in {GetStrideAndAttributes(vertexArray[1].descriptor, startLocation, properties)} :
        lastCall' = [Call("getStrideAndAttributes", OK) EXCEPT
                        !.cached = Some([startLocation |-> startLocation,
                                         properties |-> properties]),
                        !.ret = Some(r)]
    /\ UNCHANGED <<worldVars, loopVars, rendererVars, earlyFree>>

\* new Pipeline(label, {vertex: descriptors, ...})
PipelineConstruct(descriptors) ==
    /\ IsSome(vertexArray) /\ vertexArray[1].err = OK
    /\ \E r \in {PipelineVertexBufferLayout(descriptors)} :
        lastCall' = [Call("new Pipeline", OK) EXCEPT
                        !.cached = Some(descriptors), !.ret = Some(r)]
    /\ UNCHANGED <<worldVars, loopVars, rendererVars, earlyFree>>

\* a call on the VertexArray the application made: the arguments, the
\* array before the call, the outcome
VertexArrayCall(op, args, outcome) ==
    \E r \in {outcome} :
    /\ r.va.objects <= Len(r.va.descriptor) + MaxObjects
    /\ Commit([World EXCEPT !.vertexArray = Some(r.va)])
    /\ lastCall' = [Call(op, r.err) EXCEPT
                        !.cached = Some([args |-> args, before |-> vertexArray[1]]),
                        !.ret = r.ret]
    /\ UNCHANGED <<loopVars, rendererVars, earlyFree>>

HasVertexArray == IsSome(vertexArray) /\ vertexArray[1].err = OK

\* vertexArray.getRegisteredLayout(key, ...attributeNames)
AppGetRegisteredLayout(key, attributeNames) ==
    /\ HasVertexArray
    /\ VertexArrayCall("getRegisteredLayout",
                       [key |-> key, attributeNames |-> attributeNames],
                       RegisteredLayoutOf(vertexArray[1], key, attributeNames))

\* vertexArray.unregisterView(key)
AppUnregisterView(key) ==
    /\ HasVertexArray
    /\ \E r \in {UnregisterView(vertexArray[1], key)} :
        VertexArrayCall("unregisterView", [key |-> key],
                        [r EXCEPT !.ret = Some([deleted |-> r.ret])])

\* vertexArray.get(index).<property>.set(axis, v): the application writes
\* a component of a Vector of the stored vertex
AppVectorSet(index, i, axis, v) ==
    /\ HasVertexArray
    /\ index < vertexArray[1].vertexCount
    /\ DataAt(vertexArray[1], index)[i].id > 0
    /\ VertexArrayCall("Vector.set", [index |-> index, property |-> i, axis |-> axis, v |-> v],
                       [va |-> VectorSet(vertexArray[1], DataAt(vertexArray[1], index)[i].id,
                                         axis, v),
                        err |-> OK, ret |-> None])

\* vertexArray.set(index, vertexArray.get(index, clone))
AppSetGot(index, clone) ==
    /\ HasVertexArray
    /\ \E got \in {VertexArrayGet(vertexArray[1], index, clone)} :
        /\ got.err = OK
        /\ VertexArrayCall("set", [index |-> index, value |-> got.ret[1]],
                           VertexArraySet(got.va, index, got.ret[1]))

\* vertexArray.set(index, vertex) with a vertex of new values
AppSetNew(index, seed) ==
    /\ HasVertexArray
    /\ VertexArrayCall("set", [index |-> index, value |-> NewVertex(vertexArray[1], seed)],
                       VertexArraySet([vertexArray[1] EXCEPT
                                          !.objects = @ + Len(vertexArray[1].descriptor)],
                                      index, NewVertex(vertexArray[1], seed)))

----------------------------------------------------------------------------
(* GestureTarget: the pointers it tracks and the gesture in progress.  A   *)
(* pointer event carries its pointerId and clientX; clientY is 0 in every  *)
(* event, so Math.hypot(dx, dy) is |dx| and Math.atan2(dy, dx) is 0 or pi. *)
(* A PointerState object is identified by obj, the number of the           *)
(* pointerdown that made it: the map and the gesture share the objects.    *)

PointerIds == {1, 2}
Positions == {0, 100}
PointerEvents == [pointerId : PointerIds, clientX : Positions]
\* GestureTarget.panThreshold on a screen whose smaller side is 768 px
panThreshold == 48
\* the pointerdown events delivered to a target, and the wheel events of
\* one wheel gesture
MaxDowns == 3
MaxWheel == 2

MathAbs(x) == IF x < 0 THEN -x ELSE x

\* new GestureTarget(currentTarget)
GestureTargetNew ==
    [pointers |-> <<>>, alivePointerCount |-> 0, gesture |-> None, made |-> 0]

\* the outcome of a handler: the target, the exception it threw and the
\* gesture events it dispatched
Handled(g, err, dispatched) == [g |-> g, err |-> err, dispatched |-> dispatched]

\* Map.has, Map.get, Map.set (a key the map holds keeps its place) and
\* Map.delete on this.pointers, a sequence in insertion order
MapHas(pointers, id) == \E i \in 1..Len(pointers) : pointers[i].id = id
MapGet(pointers, id) == pointers[CHOOSE i \in 1..Len(pointers) : pointers[i].id = id]
MapSet(pointers, state) ==
    IF MapHas(pointers, state.id)
    THEN [i \in 1..Len(pointers) |-> IF pointers[i].id = state.id THEN state ELSE pointers[i]]
    ELSE Append(pointers, state)
MapDelete(pointers, id) == SelectSeq(pointers, LAMBDA q : q.id # id)

\* state.x = event.clientX on the PointerState object obj, wherever the
\* object is referred to
SetX(state, obj, x) == IF state.obj = obj THEN [state EXCEPT !.x = x] ELSE state
GestureWithX(gesture, obj, x) ==
    CASE gesture.type = "single" -> [gesture EXCEPT !.pointer = SetX(gesture.pointer, obj, x)]
      [] gesture.type = "two" ->
            [gesture EXCEPT !.pointers = <<SetX(gesture.pointers[1], obj, x),
                                           SetX(gesture.pointers[2], obj, x)>>]
      [] OTHER -> gesture
WriteState(g, obj, x) ==
    [g EXCEPT !.pointers = [i \in 1..Len(g.pointers) |-> SetX(g.pointers[i], obj, x)],
              !.gesture = IF IsSome(g.gesture) THEN Some(GestureWithX(g.gesture[1], obj, x))
                          ELSE None]

\* GestureTarget.createPointerState
CreatePointerState(g, event) ==
    [id |-> event.pointerId, obj |-> g.made + 1, startX |-> event.clientX,
     x |-> event.clientX]

\* GestureTarget.addPointer
AddPointer(g, event) ==
    [g EXCEPT !.pointers = MapSet(@, CreatePointerState(g, event)),
              !.alivePointerCount = @ + 1,
              !.made = @ + 1]

\* GestureTarget.removePointer
RemovePointer(g, event) ==
    IF MapHas(g.pointers, event.pointerId)
    THEN [g EXCEPT !.pointers = MapDelete(@, event.pointerId),
                   !.alivePointerCount = @ - 1]
    ELSE g

\* GestureTarget.clearGestureState: the long-press timer goes with the
\* single-touch gesture that holds it
ClearGestureState(g) == [g EXCEPT !.gesture = None]

\* GestureTarget.setSignelTouchGestureState; timeoutForLongPress is TRUE
\* while the timer is pending
SetSignelTouchGestureState(g, state) ==
    [g EXCEPT !.gesture =
        Some([type |-> "single", pointer |-> state, startPosition |-> state.x,
              lastPosition |-> state.x, lastDispatchPosition |-> None, hasMoved |-> FALSE,
              hasDispatchedAs |-> Null, timeoutForLongPress |-> TRUE])]

CalculateDistance(p1, p2) == MathAbs(p2.x - p1.x)
CalculateAngle(p1, p2) == IF p2.x - p1.x < 0 THEN "pi" ELSE "0"

\* GestureTarget.setTwoTouchGestureState: with fewer than two states p2 is
\* undefined and calculateDistance throws a TypeError, after the gesture
\* in progress has been cleared
SetTwoTouchGestureState(g, states) ==
    IF Len(states) < 2 THEN Handled(ClearGestureState(g), "TypeError", <<>>)
    ELSE Handled([g EXCEPT !.gesture =
            Some([type |-> "two", pointers |-> <<states[1], states[2]>>,
                  startDistance |-> CalculateDistance(states[1], states[2]),
                  lastDistance |-> CalculateDistance(states[1], states[2]),
                  lastDispatchDistance |-> None,
                  startAngle |-> CalculateAngle(states[1], states[2]),
                  lastAngle |-> CalculateAngle(states[1], states[2]),
                  lastDispatchAngle |-> Null])], OK, <<>>)

\* the outcome of an analysis: the gesture and the events dispatched
Analyzed(gesture, dispatched) == [gesture |-> gesture, dispatched |-> dispatched]

\* analyzeSinglePointerGestureWhenPointerMove, with the GesturePanEvent it
\* constructs
AnalyzeSinglePointerGestureWhenPointerMove(gesture) ==
    IF gesture.hasMoved \/ MathAbs(gesture.pointer.x - gesture.startPosition) > panThreshold
    THEN Analyzed([gesture EXCEPT !.hasMoved = TRUE, !.lastPosition = gesture.pointer.x,
                                  !.lastDispatchPosition = Some(gesture.pointer.x),
                                  !.hasDispatchedAs = "pan",
                                  !.timeoutForLongPress = FALSE], <<"pan">>)
    ELSE Analyzed(gesture, <<>>)

\* analyzeSinglePointerGestureWhenPointerUp; quick: the gesture lasted
\* less than swipeThreshold
AnalyzeSinglePointerGestureWhenPointerUp(gesture, quick) ==
    IF ~gesture.hasMoved /\ gesture.hasDispatchedAs = Null
    THEN Analyzed([gesture EXCEPT !.timeoutForLongPress = FALSE,
                                  !.lastDispatchPosition = Some(gesture.pointer.x),
                                  !.hasDispatchedAs = "tap"], <<"tap">>)
    ELSE IF gesture.hasMoved /\ quick
    THEN Analyzed([gesture EXCEPT !.timeoutForLongPress = FALSE,
                                  !.lastDispatchPosition = Some(gesture.pointer.x),
                                  !.hasDispatchedAs = "swipe"], <<"swipe">>)
    ELSE Analyzed([gesture EXCEPT !.timeoutForLongPress = FALSE], <<>>)

\* analyzeTwoPointerGestureWhenPointerMove, with the zoom and rotate
\* events it constructs; x || y takes y when x is undefined or 0
AnalyzeTwoPointerGestureWhenPointerMove(gesture) ==
    LET currentDistance == CalculateDistance(gesture.pointers[1], gesture.pointers[2])
        deltaDistance == currentDistance -
            (IF gesture.lastDispatchDistance \in {None, Some(0)} THEN gesture.startDistance
             ELSE gesture.lastDispatchDistance[1])
        currentAngle == CalculateAngle(gesture.pointers[1], gesture.pointers[2])
        turned == currentAngle #
            (IF gesture.lastDispatchAngle \in {Null, "0"} THEN gesture.startAngle
             ELSE gesture.lastDispatchAngle)
        zoomed == IF MathAbs(deltaDistance) > panThreshold
                  THEN Analyzed([gesture EXCEPT !.lastDistance = currentDistance,
                                                !.lastDispatchDistance = Some(currentDistance)],
                                <<"zoom">>)
                  ELSE Analyzed(gesture, <<>>)
    IN IF turned
       THEN Analyzed([zoomed.gesture EXCEPT !.lastAngle = currentAngle,
                                            !.lastDispatchAngle = currentAngle],
                     Append(zoomed.dispatched, "rotate"))
       ELSE zoomed

\* GestureTarget.onPointerDown
OnPointerDown(g, event) ==
    Then(AddPointer(g, event), LAMBDA g1 :
        IF g1.alivePointerCount = 1
        THEN Handled(SetSignelTouchGestureState(ClearGestureState(g1),
                                                CreatePointerState(g, event)), OK, <<>>)
        ELSE IF g1.alivePointerCount = 2
        THEN SetTwoTouchGestureState(g1, g1.pointers)
        ELSE Handled(ClearGestureState(g1), OK, <<>>))

\* GestureTarget.onPointerMove
OnPointerMove(g, event) ==
    Then(IF MapHas(g.pointers, event.pointerId)
         THEN WriteState(g, MapGet(g.pointers, event.pointerId).obj, event.clientX)
         ELSE g, LAMBDA g1 :
        IF ~IsSome(g1.gesture) \/ g1.gesture[1].type = "wheel" THEN Handled(g1, OK, <<>>)
        ELSE Then(IF g1.gesture[1].type = "single"
                  THEN AnalyzeSinglePointerGestureWhenPointerMove(g1.gesture[1])
                  ELSE AnalyzeTwoPointerGestureWhenPointerMove(g1.gesture[1]), LAMBDA a :
                Handled([g1 EXCEPT !.gesture = Some(a.gesture)], OK, a.dispatched)))

\* the events onPointerUp dispatches for the gesture it found
DispatchedOnPointerUp(gesture, quick) ==
    IF ~IsSome(gesture) \/ gesture[1].type = "wheel" THEN <<>>
    ELSE IF gesture[1].type = "two"
    THEN AnalyzeTwoPointerGestureWhenPointerMove(gesture[1]).dispatched
    ELSE Then(AnalyzeSinglePointerGestureWhenPointerMove(gesture[1]), LAMBDA a :
            a.dispatched \o AnalyzeSinglePointerGestureWhenPointerUp(a.gesture, quick).dispatched)

\* the pointer is removed and the object it had, if any, takes the position
\* of the event
RemoveAndWrite(g, event) ==
    Then(RemovePointer(g, event), LAMBDA g1 :
        IF MapHas(g.pointers, event.pointerId)
        THEN WriteState(g1, MapGet(g.pointers, event.pointerId).obj, event.clientX)
        ELSE g1)

\* GestureTarget.onPointerUp
OnPointerUp(g, event, quick) ==
    Then(RemoveAndWrite(g, event), LAMBDA g1 :
        Handled(ClearGestureState(g1), OK, DispatchedOnPointerUp(g1.gesture, quick)))

\* GestureTarget.onPointerCancel
OnPointerCancel(g, event) ==
    Handled(ClearGestureState(RemoveAndWrite(g, event)), OK, <<>>)

\* GestureTarget.onMouseWheel with deltaY = 1
OnMouseWheel(g) ==
    IF IsSome(g.gesture) /\ g.gesture[1].type = "wheel"
    THEN Handled([g EXCEPT !.gesture[1].total = @ + 1], OK, <<"zoom">>)
    ELSE Handled([g EXCEPT !.gesture = Some([type |-> "wheel", delta |-> 1, total |-> 1])],
                 OK, <<>>)

\* the long-press timer of the single-touch gesture fires
OnLongPressTimeout(g) ==
    Handled([g EXCEPT !.gesture[1].timeoutForLongPress = FALSE,
                      !.gesture[1].lastDispatchPosition = Some(g.gesture[1].pointer.x),
                      !.gesture[1].hasDispatchedAs = "longpress"], OK, <<"longpress">>)

\* the browser delivering an event to the target
GestureEffect(op, event, r) ==
    /\ Commit([World EXCEPT !.gestureTarget = r.g])
    /\ lastCall' = [Call(op, r.err) EXCEPT
                        !.ret = Some([event |-> event, dispatched |-> r.dispatched]),
                        !.cached = Some(gestureTarget)]
    /\ UNCHANGED <<loopVars, rendererVars, earlyFree>>

PointerDown(event) ==
    /\ gestureTarget.made < MaxDowns
    /\ \E r \in {OnPointerDown(gestureTarget, event)} : GestureEffect("pointerdown", event, r)

PointerMove(event) ==
    \E r \in {OnPointerMove(gestureTarget, event)} : GestureEffect("pointermove", event, r)

PointerUp(event, quick) ==
    \E r \in {OnPointerUp(gestureTarget, event, quick)} : GestureEffect("pointerup", event, r)

PointerCancel(event) ==
    \E r \in {OnPointerCancel(gestureTarget, event)} : GestureEffect("pointercancel", event, r)

MouseWheel ==
    /\ IsSome(gestureTarget.gesture) /\ gestureTarget.gesture[1].type = "wheel" =>
            gestureTarget.gesture[1].total < MaxWheel
    /\ \E r \in {OnMouseWheel(gestureTarget)} : GestureEffect("wheel", Null, r)

LongPressTimeout ==
    /\ IsSome(gestureTarget.gesture)
    /\ gestureTarget.gesture[1].type = "single"
    /\ gestureTarget.gesture[1].timeoutForLongPress
    /\ \E r \in {OnLongPressTimeout(gestureTarget)} : GestureEffect("longpress", Null, r)

----------------------------------------------------------------------------
(* The state after construction *)

InitOther ==
    /\ configuringStack = <<>>
    /\ passQueue = <<>>
    /\ loop = FALSE
    /\ loopId = 0
    /\ rafPending = {}
    /\ pc = 0
    /\ frameTrace = <<>>
    /\ lastCall = Call("new", OK)
    /\ accepted = <<>>
    /\ beginSeq = 0
    /\ endOrder = <<>>
    /\ gpuSampler = [x \in Samplers |-> None]
    /\ gpuShaderModule = [x \in ShaderModules |-> None]
    /\ renderPipeline = [x \in Pipelines |-> None]
    /\ bglLayout = [x \in BindGroupLayouts |-> None]
    /\ gpuBindGroup = [x \in BindGroups |-> None]
    /\ viewGpu = [x \in Views |-> None]
    /\ registeredViews = [x \in RegisteredVertexArrays |-> {}]
    /\ destructionQueue = <<>>
    /\ destroyWaiters = <<>>
    /\ gpuQueue = <<>>
    /\ taskState = <<>>
    /\ nextHandle = 0
    /\ destroyed = {}
    /\ registered = {}
    /\ gpuTextures = <<>>
    /\ loaderCalls = [x \in Textures |-> 0]
    /\ invalidated = {}
    /\ bstruct = None
    /\ verticesBuffer = <<0, 0>>
    /\ vertexArray = None
    /\ registry = RegistryNew
    /\ gestureTarget = GestureTargetNew
    /\ earlyFree = {}

\* the texture is made from an image given directly
DirectTexture ==
    Texture2DNew([width |-> 1, height |-> 1], [lazy |-> FALSE, value |-> "image"])

Init ==
    /\ InitOther
    /\ tex = [x \in Textures |-> DirectTexture]
    /\ structInput = DefaultStructInput
    /\ scratch = ScratchNew(0)
    /\ floatInput = 0
    /\ vaInput = DefaultVertexArrayInput

\* the texture is made from any descriptor
InitTexture2D ==
    /\ InitOther
    /\ tex \in [Textures -> {Texture2DNew(size, source) : size \in Sizes, source \in SourceInputs}]
    /\ structInput = DefaultStructInput
    /\ scratch = ScratchNew(0)
    /\ floatInput = 0
    /\ vaInput = DefaultVertexArrayInput

\* the BufferedStruct is made from any of the inputs
InitStruct ==
    /\ InitOther
    /\ tex = [x \in Textures |-> DirectTexture]
    /\ structInput \in StructInputs
    /\ scratch = ScratchNew(0)
    /\ floatInput = 0
    /\ vaInput = DefaultVertexArrayInput

\* the first append is given any offset
InitAppend ==
    /\ InitOther
    /\ tex = [x \in Textures |-> DirectTexture]
    /\ structInput = DefaultStructInput
    /\ scratch \in {ScratchNew(offset) : offset \in 0..MaxStart}
    /\ floatInput = 0
    /\ vaInput = DefaultVertexArrayInput

\* the writers are handed any number k / Grid of [-1, 1]
InitCodec ==
    /\ InitOther
    /\ tex = [x \in Textures |-> DirectTexture]
    /\ structInput = DefaultStructInput
    /\ scratch = ScratchNew(0)
    /\ floatInput \in -Grid..Grid
    /\ vaInput = DefaultVertexArrayInput

\* the vertex array is made with any of the index arrays
InitIndices ==
    /\ InitOther
    /\ tex = [x \in Textures |-> DirectTexture]
    /\ structInput = DefaultStructInput
    /\ scratch = ScratchNew(0)
    /\ floatInput = 0
    /\ vaInput \in IndexedInputs

\* the vertex array is made from any of the descriptors
InitLayout ==
    /\ InitOther
    /\ tex = [x \in Textures |-> DirectTexture]
    /\ structInput = DefaultStructInput
    /\ scratch = ScratchNew(0)
    /\ floatInput = 0
    /\ vaInput \in LayoutInputs

\* a Struct and a VertexArray are made from descriptors with a field of
\* an unrecognized type
InitUnknown ==
    /\ InitOther
    /\ tex = [x \in Textures |-> DirectTexture]
    /\ structInput \in UnknownStructInputs
    /\ scratch = ScratchNew(0)
    /\ floatInput = 0
    /\ vaInput \in UnknownVertexInputs

\* a VertexArray whose layouts are registered, unregistered and updated
InitViews ==
    /\ InitOther
    /\ tex = [x \in Textures |-> DirectTexture]
    /\ structInput = DefaultStructInput
    /\ scratch = ScratchNew(0)
    /\ floatInput = 0
    /\ vaInput \in ViewInputs

\* The render scheduler driven by direct calls, passes nesting freely
QueuePassInputs == {p \in PassInputs : p.label = "main"}
QueueDrawInputs == {d \in DrawInputs : IsSome(d.bindGroups) = (d.buffer.name # "missing")
                                        /\ d.buffer.name # Null}

Next ==
    \/ \E info \in QueuePassInputs : BeginPass(info)
    \/ \E info \in QueueDrawInputs : Draw(info)
    \/ EndPass
    \/ Render

Spec == Init /\ [][Next]_vars

\* The render scheduler driven the way test/triangle.ts drives it: one pass
\* per flush, with every kind of pass and draw step
BeginOnlyPass(info) == PassesAlive = 0 /\ BeginPass(info)

NextBind ==
    \/ \E info \in PassInputs : BeginOnlyPass(info)
    \/ \E info \in DrawInputs : Draw(info)
    \/ EndPass
    \/ Render

SpecBind == Init /\ [][NextBind]_vars

\* The render scheduler flushing draw steps whose buffer layouts come from
\* vertex arrays with and without an index stream
IndexedDrawInputs ==
    {[pipeline |-> "pipeAuto", bindGroups |-> None, buffer |-> Inline(GetBufferLayout(va))] :
        va \in IndexedArrays}
    \cup {[pipeline |-> "pipeAuto", bindGroups |-> None, buffer |-> Named("quadrilateral")]}

NextIndexed ==
    \/ \E info \in PassInputs : BeginOnlyPass(info)
    \/ \E info \in IndexedDrawInputs : Draw(info)
    \/ EndPass
    \/ Render

SpecIndexed == Init /\ [][NextIndexed]_vars

\* The browser delivering pointer and wheel events to one GestureTarget,
\* a pointerdown for a pointer whose pointerup went elsewhere included
NextGesture ==
    \/ \E event \in PointerEvents : PointerDown(event)
    \/ \E event \in PointerEvents : PointerMove(event)
    \/ \E event \in PointerEvents, quick \in BOOLEAN : PointerUp(event, quick)
    \/ \E event \in PointerEvents : PointerCancel(event)
    \/ MouseWheel
    \/ LongPressTimeout

SpecGesture == Init /\ [][NextGesture]_vars

\* The frame loop drawing one textured step per frame from the application
\* callback, the application asking for the texture's view and unloading
\* it from tasks of its own, the GPU and the task promises
Start == pc = 0 /\ rafPending = {} /\ Run
DrawOne(info) == InCallback /\ configuringStack # <<>> /\ accepted = <<>> /\ Draw(info)

NextTex ==
    \/ Start
    \/ FrameBegin
    \/ StepCallback
    \/ CallbackReturn
    \/ StepDrain
    \/ StepRender
    \/ FrameEnd
    \/ InCallback /\ BeginOnlyPass(TexPass)
    \/ DrawOne(TexDraw)
    \/ InCallback /\ configuringStack # <<>> /\ EndPass
    \/ pc = 0 /\ AppGetGPUTextureView("tex")
    \/ AppUnload("tex")
    \/ pc = 0 /\ GPUComplete
    \/ \E i \in 1..Len(taskState) : ResolveTask(i)

SpecTex == Init /\ [][NextTex]_vars

\* The frame loop started and stopped at will, the application callback
\* describing one pass per frame; a step drawing an unregistered vertex
\* array makes the flush throw
NextLoop ==
    \/ Run
    \/ Stop
    \/ FrameBegin
    \/ StepCallback
    \/ CallbackReturn
    \/ CallbackThrow
    \/ StepDrain
    \/ StepRender
    \/ FrameEnd
    \/ InCallback /\ \E info \in QueuePassInputs : BeginOnlyPass(info)
    \/ InCallback /\ \E info \in QueueDrawInputs : Draw(info)
    \/ InCallback /\ EndPass

SpecLoop == Init /\ [][NextLoop]_vars

\* The application asking one wrapper of every kind for its device object,
\* for either of two devices
NextDevice ==
    \E dev \in Devices :
        \/ AppGetGPUTexture("tex", dev)
        \/ AppGetGPUSampler("linear", dev)
        \/ AppGetGPUShaderModule(<<"pipeAuto", "vertex">>, dev)
        \/ AppGetRenderPipeline("pipeAuto", dev)
        \/ AppGetGPUBindGroupLayout("layA", dev)
        \/ AppGetGPUBindGroup("bgA", dev)
        \/ AppGetGPUBuffer(<<"viewA", "struct">>, dev)
        \/ AppGetGPUBuffer(<<"tri", "vertices">>, dev)

SpecDevice == Init /\ [][NextDevice]_vars

\* One Texture2D made from any descriptor, the application loading,
\* unloading, resizing it, giving it a new source and asking for its
\* handle while the GPU is idle, the loaders, the GPU and the task promises
GPUIdle ==
    /\ gpuQueue = <<>>
    /\ \A i \in 1..Len(taskState) : taskState[i].state = "resolved"

NextTexture2D ==
    \/ GPUIdle /\ AppLoad("tex")
    \/ GPUIdle /\ \E i \in 1..Len(tex["tex"].loading) : LoadResume("tex", i)
    \/ GPUIdle /\ AppUnload("tex")
    \/ GPUIdle /\ \E size \in Sizes : AppSetSize("tex", size)
    \/ GPUIdle /\ \E source \in SourceInputs : AppSetSource("tex", source)
    \/ GPUIdle /\ AppGetGPUTexture("tex", device)
    \/ GPUComplete
    \/ \E i \in 1..Len(taskState) : ResolveTask(i)

SpecTexture2D == InitTexture2D /\ [][NextTexture2D]_vars

\* One BufferedStruct made from any of the inputs, its fields set and its
\* GPU buffer asked for
NextStruct ==
    \/ StructConstruct
    \/ \E i \in 1..MaxFields + 1, seed \in {0, 2} : StructSetField(i, seed)
    \/ StructGetGPUBuffer(device)

SpecStruct == InitStruct /\ [][NextStruct]_vars

\* Values appended one after another to one StructedView
NextAppend ==
    \/ \E type \in AppendTypes : ViewAppend(type)
    \/ \E encoding \in {"f32", "i32", "u32"} : ViewAppendNumber(encoding)

SpecAppend == InitAppend /\ [][NextAppend]_vars

\* The normalized byte writers of one VerticesView handed one number
NextCodec ==
    \/ SetNormalizedSignedByte
    \/ SetNormalizedSignedByteArray
    \/ SetNormalizedUnsignedByte
    \/ SetNormalizedUnsignedByteArray

SpecCodec == InitCodec /\ [][NextCodec]_vars

\* One VertexArray constructed with an index array
NextIndices ==
    \/ VertexArrayConstruct

SpecIndices == InitIndices /\ [][NextIndices]_vars

\* The three named registries used with any label
NextRegistry ==
    \/ \E name \in Labels, sampler \in OwnWrappers("Sampler") : AppRegisterSampler(name, sampler)
    \/ \E name \in Labels : AppCreateRegisteredSampler(name)
    \/ \E name \in Labels : AppGetSampler(name)
    \/ \E label \in Labels : AppRegisterLayout(label)
    \/ \E label \in Labels : AppGetLayout(label)
    \/ \E label \in Labels : AppUnregisterLayout(label)
    \/ \E name \in Labels,
          input \in {VertexArrayInput(<<>>, 3, None, Some(<<0, 2>>)),
                     VertexArrayInput(<<>>, 3, None, Some(<<3>>))} :
            AppCreateRegisteredVertexArray(name, input)
    \/ \E name \in Labels, va \in OwnWrappers("VertexArray") : AppRegisterVertexArray(name, va)
    \/ \E name \in Labels : AppGetVertexArray(name)

SpecRegistry == Init /\ [][NextRegistry]_vars

\* The frame loop running while a texture is bound with tasks of the
\* caller and unloaded, the tasks settling either way.  The browser keeps
\* delivering animation frames and running the closure, every task the
\* caller handed in settles, and the GPU completes what it was given.
FrameStep ==
    \/ FrameBegin
    \/ StepCallback
    \/ CallbackReturn
    \/ StepDrain
    \/ StepRender
    \/ FrameEnd

SettleTask(i) == i <= Len(taskState) /\ (ResolveTask(i) \/ RejectTask(i))

NextLive ==
    \/ Start
    \/ FrameStep
    \/ pc = 0 /\ AppGetGPUTextureView("tex")
    \/ pc = 0 /\ AppUnload("tex")
    \/ pc = 0 /\ GPUComplete
    \/ \E i \in 1..Len(taskState) : ResolveTask(i)
    \/ \E i \in 1..Len(taskState) : RejectTask(i)

SpecLive ==
    /\ Init
    /\ [][NextLive]_vars
    /\ WF_vars(Start)
    /\ WF_vars(FrameStep)
    /\ SF_vars(pc = 0 /\ GPUComplete)
    /\ \A i \in 1..MaxTasks : SF_vars(SettleTask(i))

\* A bind group of a texture and a sampler, the texture unloaded, replaced
\* and bound again while the GPU is idle, the bind group destroyed
NextGroup ==
    \/ AppGetGPUBindGroup("bgTex", device)
    \/ AppBindGroupDestroy("bgTex")
    \/ GPUIdle /\ AppUnload("tex")
    \/ GPUIdle /\ \E source \in SourceInputs : AppSetSource("tex", source)
    \/ GPUIdle /\ AppGetGPUTextureView("tex")
    \/ GPUComplete
    \/ \E i \in 1..Len(taskState) : ResolveTask(i)

SpecGroup == Init /\ [][NextGroup]_vars

\* One VertexArray, its registered layouts and its vertices
NextViews ==
    \/ VertexArrayConstruct
    \/ \E key \in ViewKeys, attributeNames \in ViewAttributeNames(vaInput.descriptor) :
            AppGetRegisteredLayout(key, attributeNames)
    \/ \E key \in ViewKeys : AppUnregisterView(key)
    \/ \E v \in {5} : AppVectorSet(0, 1, 0, v)
    \/ \E clone \in BOOLEAN : AppSetGot(0, clone)
    \/ \E index \in {0, 1} : AppSetNew(index, 1)

SpecViews == InitViews /\ [][NextViews]_vars

\* A Struct and a VertexArray constructed from their descriptors
NextUnknown ==
    \/ StructConstruct
    \/ VertexArrayConstruct

SpecUnknown == InitUnknown /\ [][NextUnknown]_vars

\* One VertexArray asked for layouts of its attributes, and pipelines
\* made from its descriptor alone or followed by a second one
NextLayout ==
    \/ VertexArrayConstruct
    \/ \E lists \in AttributeLists(vaInput.descriptor) : AppGetBufferLayout(lists)
    \/ \E startLocation \in {0, 2},
          properties \in {None} \cup {Some(l[1]) : l \in {x \in AttributeLists(vaInput.descriptor) :
                                                            Len(x) = 1}} :
            AppGetStrideAndAttributes(startLocation, properties)
    \/ \E second \in {<<>>, <<PositionColor>>, <<vaInput.descriptor>>} :
            PipelineConstruct(<<vaInput.descriptor>> \o second)

SpecLayout == InitLayout /\ [][NextLayout]_vars

----------------------------------------------------------------------------
(* Properties of the render scheduler *)

Flushed == lastCall.op = "render" /\ lastCall.result = OK

\* the ids of the encoded draw steps, in encoding order
RECURSIVE FlattenIds(_)
FlattenIds(passes) ==
    IF passes = <<>> THEN <<>>
    ELSE [i \in 1..Len(passes[1].steps) |-> passes[1].steps[i].id] \o FlattenIds(Tail(passes))

SubmittedIds == Range(FlattenIds(lastCall.submitted))
Increasing(s) == \A i, j \in 1..Len(s) : i < j => s[i] < s[j]
IndexIn(s, x) == CHOOSE i \in 1..Len(s) : s[i] = x

\* C3 as stated: a flush encodes the draw steps in the order of the draw()
\* calls
C3_GlobalCallOrder == Flushed => Increasing(FlattenIds(lastCall.submitted))

\* C3 amended: a flush encodes the passes in the order of their endPass()
\* calls and, inside each pass, the steps that pass accepted in the order of
\* their draw() calls
C3_PassThenCallOrder ==
    Flushed =>
        LET S == lastCall.submitted IN
        /\ \A i, j \in 1..Len(S) : i < j =>
              /\ S[i].id \in Range(lastCall.endOrder)
              /\ S[j].id \in Range(lastCall.endOrder)
              /\ IndexIn(lastCall.endOrder, S[i].id) < IndexIn(lastCall.endOrder, S[j].id)
        /\ \A i \in 1..Len(S) :
              /\ Increasing([k \in 1..Len(S[i].steps) |-> S[i].steps[k].id])
              /\ \A k \in 1..Len(S[i].steps) :
                    \E a \in Range(lastCall.accepted) :
                        a.id = S[i].steps[k].id /\ a.pass = S[i].id

\* a flush of two nested passes, the inner one holding the later draw
C3_Witness ==
    /\ Flushed
    /\ Len(lastCall.submitted) = 2
    /\ FlattenIds(lastCall.submitted) = <<2, 1>>

\* C4 as stated: every draw step accepted since the last flush is in the
\* command buffer of the next flush
C4_NoAcceptedStepDropped ==
    Flushed => \A a \in Range(lastCall.accepted) : a.id \in SubmittedIds

\* C4 amended: every accepted draw step whose pass was ended before the
\* flush is in the command buffer of the next render() that returns
C4_EndedPassStepsSubmitted ==
    Flushed => \A a \in Range(lastCall.accepted) :
                  a.pass \in Range(lastCall.endOrder) => a.id \in SubmittedIds

\* a flush that submitted the step of an ended pass and dropped the step
\* of a pass that was still being configured
C4_Witness ==
    /\ Flushed
    /\ \E a \in Range(lastCall.accepted) :
          a.pass \in Range(lastCall.endOrder) /\ a.id \in SubmittedIds
    /\ \E b \in Range(lastCall.accepted) :
          b.pass \notin Range(lastCall.endOrder) /\ b.id \notin SubmittedIds

\* the passes begun since the last flush that endPass() has not ended, and
\* the most recently begun of them
NotEnded == (1..beginSeq) \ Range(endOrder)
MostRecent(ids) == CHOOSE id \in ids : \A other \in ids : other <= id
StepIds(pass) == [k \in 1..Len(pass.renderSteps) |-> pass.renderSteps[k].id]

\* a step in which draw() is accepted puts the step on the pass on top of
\* the stack, the most recently begun of the passes not ended, only there
DrawGoesToTop ==
    (Len(accepted') = Len(accepted) + 1) =>
        /\ NotEnded # {}
        /\ CurrentPass = MostRecent(NotEnded)
        /\ accepted'[Len(accepted')].pass = CurrentPass
        /\ Len(configuringStack') = Len(configuringStack)
        /\ \A k \in 1..Len(configuringStack) :
              /\ configuringStack'[k].id = configuringStack[k].id
              /\ StepIds(configuringStack'[k])
                   = IF k = Len(configuringStack)
                     THEN Append(StepIds(configuringStack[k]), accepted'[Len(accepted')].id)
                     ELSE StepIds(configuringStack[k])
        /\ passQueue' = passQueue

\* a step in which endPass() returns moves the top of the stack to the end
\* of the queue
EndPassQueuesTop ==
    (Len(endOrder') = Len(endOrder) + 1) =>
        /\ endOrder'[Len(endOrder')] = MostRecent(NotEnded)
        /\ passQueue' = Append(passQueue, configuringStack[Len(configuringStack)])
        /\ configuringStack' = SubSeq(configuringStack, 1, Len(configuringStack) - 1)

\* C30: draw() appends its step to the most recently begun pass that has
\* not been ended, which is the top of the configuration stack, and to no
\* other pass; endPass() moves that pass to the end of the queue, so the
\* queue holds the passes in the order of their endPass() calls and an
\* inner pass stands before the pass that encloses it
C30_DrawOnTopQueueInEndOrder ==
    /\ []([i \in 1..Len(passQueue) |-> passQueue[i].id] = endOrder)
    /\ [][DrawGoesToTop /\ EndPassQueuesTop]_vars

\* two nested passes are queued, the inner one first, each holding the
\* step drawn while it was the top of the stack
C30_Witness ==
    /\ lastCall = Call("endPass", OK)
    /\ configuringStack = <<>>
    /\ [i \in 1..Len(passQueue) |-> passQueue[i].id] = <<2, 1>>
    /\ accepted = <<[id |-> 1, pass |-> 2], [id |-> 2, pass |-> 1]>>
    /\ StepIds(passQueue[1]) = <<1>>
    /\ StepIds(passQueue[2]) = <<2>>

\* C5: after a render() that returns, the submission queue and the
\* configuration stack are empty
C5_FlushClearsQueueAndStack ==
    Flushed => passQueue = <<>> /\ configuringStack = <<>>

\* a flush that found an empty pass in the queue and a pass on the stack
C5_Witness ==
    /\ Flushed
    /\ \E i \in 1..Len(lastCall.queueBefore) : Len(lastCall.queueBefore[i].renderSteps) = 0
    /\ \E i \in 1..Len(lastCall.stackBefore) : Len(lastCall.stackBefore[i].renderSteps) > 0

\* C6: draw() or endPass() with an empty configuration stack throws "No
\* pass is currently configured." and changes neither stack nor queue
C6_EmptyStackThrows ==
    [][(lastCall'.op \in {"draw", "endPass"} /\ configuringStack = <<>>) =>
          /\ lastCall'.result = NoPassConfigured
          /\ configuringStack' = configuringStack
          /\ passQueue' = passQueue]_vars

\* draw() has thrown with passes waiting in the queue
C6_Witness ==
    /\ lastCall.op = "draw"
    /\ lastCall.result = NoPassConfigured
    /\ Len(passQueue) > 0

\* the pass of the flushed queue an encoded pass came from, and the step
PassOf(encodedPass) ==
    CHOOSE q \in Range(lastCall.queueBefore) : q.id = encodedPass.id
StepOf(encodedPass, encodedStep) ==
    CHOOSE r \in Range(PassOf(encodedPass).renderSteps) : r.id = encodedStep.id

\* the bind group the specification asks for at a slot: the step's own,
\* else the pass default
Expected(render, passInfo, slot) ==
    IF IsSome(render.bindGroups) /\ slot < Len(render.bindGroups[1])
       /\ render.bindGroups[1][slot + 1] # Null
    THEN render.bindGroups[1][slot + 1]
    ELSE IF IsSome(passInfo.defaultBindGroups) /\ slot < Len(passInfo.defaultBindGroups[1])
    THEN passInfo.defaultBindGroups[1][slot + 1]
    ELSE Null

BoundAt(encodedStep, slot) ==
    IF \E k \in 1..Len(encodedStep.bindGroups) : encodedStep.bindGroups[k].slot = slot
    THEN encodedStep.bindGroups[
            CHOOSE k \in 1..Len(encodedStep.bindGroups) : encodedStep.bindGroups[k].slot = slot
         ].bindGroup
    ELSE Null

\* C7: at every slot its pipeline requires, an encoded step binds its own
\* bind group if it supplies one, else the default of its pass
C7_StepBindGroupOverridesDefault ==
    Flushed =>
        \A i \in 1..Len(lastCall.submitted) :
            \A j \in 1..Len(lastCall.submitted[i].steps) :
                LET es == lastCall.submitted[i].steps[j]
                    render == StepOf(lastCall.submitted[i], es)
                    passInfo == PassOf(lastCall.submitted[i])
                IN \A slot \in 0..(Pipeline(es.pipeline).bindGroupCount - 1) :
                      BoundAt(es, slot) = Expected(render, passInfo, slot)

\* a step whose own bind group replaced a different pass default at slot 0
\* and which fell back to the pass default at slot 1
C7_Witness ==
    /\ Flushed
    /\ \E i \in 1..Len(lastCall.submitted) :
          \E j \in 1..Len(lastCall.submitted[i].steps) :
              LET es == lastCall.submitted[i].steps[j]
                  render == StepOf(lastCall.submitted[i], es)
                  passInfo == PassOf(lastCall.submitted[i])
              IN /\ At(render.bindGroups, 0) = "bgA"
                 /\ At(passInfo.defaultBindGroups, 0) = "bgB"
                 /\ BoundAt(es, 0) = "bgA"
                 /\ At(render.bindGroups, 1) = Null
                 /\ BoundAt(es, 1) = "bgA"

\* the index stream of the buffer a step refers to, if it has one
IndicesOf(buffer) ==
    IF buffer.name # Null THEN VertexArrayOf(buffer.name).indices
    ELSE buffer.layout[1].indices

\* C8: an encoded step draws indexed exactly when its buffer has an index
\* stream; three vertices without indices give draw(3), and with the
\* indices 0, 1, 2 give drawIndexed(3) on uint16 indices
C8_IndexedIffIndexStream ==
    Flushed =>
        \A i \in 1..Len(lastCall.submitted) :
            \A j \in 1..Len(lastCall.submitted[i].steps) :
                LET es == lastCall.submitted[i].steps[j]
                    render == StepOf(lastCall.submitted[i], es)
                IN /\ es.draw.indexed = IsSome(IndicesOf(render.buffer))
                   /\ render.buffer = Named("fullscreen-triangle") =>
                         es.draw = [indexed |-> FALSE, count |-> 3, indexType |-> Null]
                   /\ render.buffer.name = Null =>
                         /\ TriIndexed.indices[1].data = <<0, 1, 2>>
                         /\ es.draw = [indexed |-> TRUE, count |-> 3, indexType |-> "uint16"]

\* one flush that encoded an indexed and a non-indexed draw
C8_Witness ==
    /\ Flushed
    /\ \E i \in 1..Len(lastCall.submitted) :
          \E j, k \in 1..Len(lastCall.submitted[i].steps) :
              /\ lastCall.submitted[i].steps[j].draw.indexed
              /\ ~lastCall.submitted[i].steps[k].draw.indexed

\* C38: a pipeline with the "auto" layout has bind-group count 0, and a
\* flush binds no bind group, the step's own or a pass default, for a draw
\* step that uses such a pipeline
C38_AutoLayoutBindsNothing ==
    /\ \A p \in Pipelines : Pipeline(p).auto => Pipeline(p).bindGroupCount = 0
    /\ Flushed =>
          \A i \in 1..Len(lastCall.submitted) :
              \A j \in 1..Len(lastCall.submitted[i].steps) :
                  Pipeline(lastCall.submitted[i].steps[j].pipeline).auto =>
                      lastCall.submitted[i].steps[j].bindGroups = <<>>

\* a flush encoded a step of an "auto" pipeline that supplied a bind
\* group of its own, in a pass that has default bind groups, and bound none
C38_Witness ==
    /\ Flushed
    /\ \E i \in 1..Len(lastCall.submitted) :
          \E j \in 1..Len(lastCall.submitted[i].steps) :
              LET es == lastCall.submitted[i].steps[j]
                  render == StepOf(lastCall.submitted[i], es)
                  passInfo == PassOf(lastCall.submitted[i])
              IN /\ Pipeline(es.pipeline).auto
                 /\ At(render.bindGroups, 0) = "bgB"
                 /\ At(passInfo.defaultBindGroups, 0) = "bgB"
                 /\ At(passInfo.defaultBindGroups, 1) = "bgA"
                 /\ es.bindGroups = <<>>

\* the places of a command buffer where pipeline p is set, and the first of
\* them in encoding order
UsesOf(S, p) ==
    UNION {{<<i, j>> : j \in {k \in 1..Len(S[i].steps) : S[i].steps[k].pipeline = p}} :
              i \in 1..Len(S)}
FirstUseOf(S, p) ==
    CHOOSE u \in UsesOf(S, p) :
        \A v \in UsesOf(S, p) : u[1] < v[1] \/ (u[1] = v[1] /\ u[2] <= v[2])

\* the color targets render() hands to getRenderPipeline for the steps of
\* an encoded pass of the flush just made
TargetsOfPass(encodedPass) ==
    GetGPUColorTargetStates(CHOOSE q \in Range(lastCall'.queueBefore) : q.id = encodedPass.id)

\* a device pipeline object that exists is never replaced
PipelineKept ==
    \A p \in Pipelines : IsSome(renderPipeline[p]) => renderPipeline'[p] = renderPipeline[p]

\* every step of a flush sets the one device object of its pipeline, and
\* an object made by the flush has the color targets of the first call
PipelineOfFirstCall ==
    (lastCall'.op = "render" /\ lastCall'.result = OK) =>
        \A u \in UNION {UsesOf(lastCall'.submitted, p) : p \in Pipelines} :
            LET S == lastCall'.submitted
                es == S[u[1]].steps[u[2]]
                first == FirstUseOf(S, es.pipeline)
            IN /\ renderPipeline'[es.pipeline] = Some(es.renderPipeline)
               /\ ~IsSome(renderPipeline[es.pipeline]) =>
                      es.renderPipeline.targets = TargetsOfPass(S[first[1]])

\* C37: a Pipeline creates its device pipeline object once, on the first
\* getRenderPipeline() call and with that call's color targets, and every
\* later call returns that object whatever color targets it is given
C37_PipelineCreatedOnce == [][PipelineKept /\ PipelineOfFirstCall]_vars

\* a flush set a pipeline object for a pass whose color targets are not
\* the ones the object was made with
C37_Witness ==
    /\ Flushed
    /\ \E i \in 1..Len(lastCall.submitted) :
          \E j \in 1..Len(lastCall.submitted[i].steps) :
              LET es == lastCall.submitted[i].steps[j] IN
              /\ es.renderPipeline = renderPipeline[es.pipeline][1]
              /\ es.renderPipeline.targets #
                    GetGPUColorTargetStates(PassOf(lastCall.submitted[i]))

\* the vertex array an inline buffer layout was taken from
ArrayOfLayout(layout) == CHOOSE va \in IndexedArrays : <<va.label, "vertices">> = layout.vertices[1]

\* C39: for a buffer layout with an index stream the indexed draw is
\* issued with the vertex count of the vertex array as its count, however
\* many indices the index stream holds
C39_IndexedDrawUsesVertexCount ==
    Flushed =>
        \A i \in 1..Len(lastCall.submitted) :
            \A j \in 1..Len(lastCall.submitted[i].steps) :
                LET es == lastCall.submitted[i].steps[j]
                    render == StepOf(lastCall.submitted[i], es)
                IN (es.draw.indexed /\ render.buffer.name = Null) =>
                      es.draw.count = ArrayOfLayout(render.buffer.layout[1]).vertexCount

\* one flush drew indexed with count 4 from an index stream of six indices
\* and with count 3 from an index stream of two
C39_Witness ==
    /\ Flushed
    /\ \E i \in 1..Len(lastCall.submitted) :
          \E j, k \in 1..Len(lastCall.submitted[i].steps) :
              /\ lastCall.submitted[i].steps[j].draw = [indexed |-> TRUE, count |-> 4, indexType |-> "uint16"]
              /\ Len(QuadIndexed.indices[1].data) = 6
              /\ StepOf(lastCall.submitted[i], lastCall.submitted[i].steps[j]).buffer =
                    Inline(GetBufferLayout(QuadIndexed))
              /\ lastCall.submitted[i].steps[k].draw = [indexed |-> TRUE, count |-> 3, indexType |-> "uint16"]
              /\ Len(LineIndexed.indices[1].data) = 2
              /\ StepOf(lastCall.submitted[i], lastCall.submitted[i].steps[k]).buffer =
                    Inline(GetBufferLayout(LineIndexed))

----------------------------------------------------------------------------
(* Properties of the texture destruction queue *)

\* C1: the drain never destroys a handle that an operation issued before
\* the drain, and not yet completed, refers to
C1_NoFreeWhileInUse == earlyFree = {}

\* the tasks setCurrentGPUTask has chained behind a handle
TasksOf(h) == {r.task : r \in {x \in registered : x.handle = h}} \ {NoTask}

\* C2: a handle is in the destruction queue, or destroyed, only when every
\* task chained behind it has been fulfilled: the promise tracked when
\* destroyGPUTexture() was called and every task chained before it
C2_PushedOnlyAfterTasksResolve ==
    \A h \in Range(destructionQueue) \cup destroyed :
        \A task \in TasksOf(h) : taskState[task].state = "resolved"

\* destroyGPUTexture() has been called on a handle with two tasks chained,
\* the first fulfilled and the second not, and the handle is still waiting
C2_Witness ==
    \E i \in 1..Len(destroyWaiters) :
        LET waiter == destroyWaiters[i] IN
        /\ Len(waiter.promise) = 2
        /\ waiter.promise[1] # NoTask /\ waiter.promise[2] # NoTask
        /\ taskState[waiter.promise[1]].state = "resolved"
        /\ taskState[waiter.promise[2]].state = "pending"
        /\ waiter.handle \notin Range(destructionQueue) \cup destroyed

\* the handles destroyGPUTexture() has been called on: every handle made
\* so far that is no longer the handle of its texture
DestroyRequested == (1..nextHandle) \ {tex[t].texture : t \in Textures}

\* the handles whose continuation is still waiting for its promise
Waiting == {destroyWaiters[i].handle : i \in 1..Len(destroyWaiters)}

\* C11: a handle destroyGPUTexture() was called on, and whose chained tasks
\* have all been fulfilled, is queued for destruction or destroyed whenever
\* no frame is running, and has been destroyed once the drain step of a
\* frame has run, unless destroyGPUTexture() was called on it within that
\* same frame: it is freed by the drain step of the first frame that starts
\* after the fulfilment
C11_FreedByNextDrain ==
    \A h \in DestroyRequested :
        (\A task \in TasksOf(h) : taskState[task].state = "resolved") =>
            /\ pc = 0 => h \in Range(destructionQueue) \cup destroyed
            /\ (pc > 0 /\ "drain" \in Range(frameTrace)) => h \in destroyed \cup Waiting

\* the drain step of a frame has just destroyed a handle that had waited
\* for a write and for a task of the caller's
C11_Witness ==
    /\ frameTrace = <<"callback", "drain">>
    /\ \E h \in destroyed :
          /\ Cardinality(TasksOf(h)) = 2
          /\ \E task \in TasksOf(h) : taskState[task].kind = "workDone"
    /\ destructionQueue = <<>> /\ destroyWaiters = <<>>

\* C31: destroy() is invoked on a handle only by the drain step of a
\* frame, Texture.destroyTextures(), and only on the handles that were in
\* the destruction queue; the drain leaves the queue empty; no other step,
\* destroyGPUTexture() and unload() included, frees a handle
C31_FreedOnlyByDrain ==
    [][/\ (destroyed' # destroyed) =>
            (/\ AtStatement("drain")
             /\ frameTrace' = Append(frameTrace, "drain")
             /\ destroyed' = destroyed \cup Range(destructionQueue))
       /\ (AtStatement("drain") /\ frameTrace' = Append(frameTrace, "drain")) =>
            destructionQueue' = <<>>]_vars

\* unload() has returned and its handle waits, not freed, while an earlier
\* handle has been freed by a drain
C31_Witness ==
    /\ lastCall.op = "unload"
    /\ destroyed # {}
    /\ destructionQueue = <<>>
    /\ \E h \in DestroyRequested : h \notin destroyed /\ h \in Waiting

\* the task promise the latest getGPUTextureView(device, task) call of the
\* application was given
CallerTasks == {i \in 1..Len(taskState) : taskState[i].kind = "caller"}
LastCallerTask == CHOOSE i \in CallerTasks : \A j \in CallerTasks : j <= i

\* C34: the task promise given to getGPUTextureView(device, task) is in
\* the chain of the handle whose view the call returned, and the work-done
\* promise of every write is in the chain of the handle written
C34_EveryTaskChained ==
    /\ (lastCall.op = "getGPUTextureView" /\ lastCall.result = OK) =>
            [handle |-> tex["tex"].textureView, task |-> LastCallerTask] \in registered
    /\ \A i \in 1..Len(taskState) :
            taskState[i].kind = "workDone" => \E r \in registered : r.task = i

\* the half of C34 about writes: every work-done promise is chained
C34_WritesChained ==
    \A i \in 1..Len(taskState) :
        taskState[i].kind = "workDone" => \E r \in registered : r.task = i

\* C33: every handle destroyGPUTexture() was called on is eventually
\* freed by a drain, when every task settles and the frame loop keeps
\* running
C33_EventuallyFreed ==
    \A h \in 1..MaxHandles : (h \in DestroyRequested) ~> (h \in destroyed)

----------------------------------------------------------------------------
(* Properties of Texture2D *)

\* C12: the lazy loader a texture has is invoked at most once, however
\* many load() calls are made, and load() on a texture that has its source
\* changes nothing
C12_LoaderInvokedAtMostOnce ==
    /\ \A t \in Textures : tex[t].loadSource.lazy => loaderCalls[t] <= 1
    /\ (lastCall.op = "load" /\ IsSome(lastCall.cached)) =>
          \A t \in Textures :
              tex[t] = lastCall.cached[1].tex /\ loaderCalls[t] = lastCall.cached[1].loaderCalls

\* C13: a handle the texture held when unload(), setSource() or setSize()
\* was called is on the destruction path and is not the texture's handle
\* any more, and a handle getGPUTexture() returns after such a call has
\* the texture's size and holds the texture's source
C13_InvalidatedHandleReplaced ==
    /\ invalidated \subseteq Waiting \cup Range(destructionQueue) \cup destroyed
    /\ \A t \in Textures : tex[t].texture \notin invalidated
    /\ (lastCall.op = "getGPUTexture" /\ IsSome(lastCall.ret) /\ invalidated # {}) =>
          LET h == lastCall.ret[1].handle IN
          \A t \in Textures : tex[t].texture = h =>
              /\ gpuTextures[h].size = tex[t].size
              /\ gpuTextures[h].data = tex[t].source

\* C14: isLoaded is true exactly when the source is not null
C14_LoadedIffSource ==
    \A t \in Textures : tex[t].isLoaded <=> tex[t].source # Null

\* a load() call that waited for a lazy loader has resumed on a texture
\* that was unloaded before, and the texture is loaded with what the
\* loader gave
C14_Witness ==
    /\ lastCall.op = "loadResume"
    /\ \E t \in Textures :
          /\ tex[t].isLoaded /\ tex[t].source = tex[t].loadSource.value
          /\ tex[t].loadSource.lazy
          /\ invalidated # {}

\* a load() call that waited for its loader resumes
LoadResumes == lastCall'.op = "loadResume" /\ lastCall' # lastCall

\* the resuming load() leaves the source and the loaded flag of every
\* texture as the last call left them
OutcomeKept ==
    \A t \in Textures :
        /\ tex'[t].source = tex[t].source
        /\ tex'[t].isLoaded = tex[t].isLoaded

\* C35: a load() still waiting for its loader when unload() or
\* setSource() with a direct value is called does not overwrite what that
\* later call left: the source stays the one setSource() gave, and the
\* texture stays unloaded after unload(), when the waiting load() resumes
C35_LaterCallOutcomeKept ==
    [][(LoadResumes /\ lastCall.op \in {"unload", "setSource"}) => OutcomeKept]_vars

----------------------------------------------------------------------------
(* Properties of Struct, BufferedStruct and StructedView *)

\* C15: once the GPU buffer of a BufferedStruct made with synchronization
\* on exists, its bytes equal the bytes of the CPU-side buffer after every
\* set(): each write of set() is uploaded over the byte range it wrote
C15_GPUBufferFollowsSet ==
    (IsSome(bstruct) /\ bstruct[1].view.synchronize /\ IsSome(bstruct[1].view.gpu)) =>
        bstruct[1].view.gpu[1].buffer = bstruct[1].view.buffer

\* set() has changed bytes of the CPU-side buffer of a synchronized struct
\* whose GPU buffer existed before the call
C15_Witness ==
    /\ lastCall.op = "set" /\ lastCall.result = OK
    /\ IsSome(lastCall.cached[1].gpu)
    /\ bstruct[1].view.synchronize
    /\ bstruct[1].view.buffer # lastCall.cached[1].buffer
    /\ bstruct[1].view.gpu[1].buffer # lastCall.cached[1].gpu[1].buffer

\* the smallest multiple of a not below x
RoundUp(x, a) == ((x + a - 1) \div a) * a

\* the alignment, the size and the field offsets the layout rule gives a
\* type: a nested descriptor is laid out by the same rule
RECURSIVE TypeAlignment(_)
RECURSIVE TypeSize(_)
RECURSIVE RuleOffset(_, _)
RuleEnd(descriptor, i) ==
    IF i = 0 THEN 0 ELSE RuleOffset(descriptor, i) + TypeSize(descriptor[i].type)
RuleOffset(descriptor, i) ==
    RoundUp(RuleEnd(descriptor, i - 1), TypeAlignment(descriptor[i].type))
TypeAlignment(type) ==
    CASE type.kind = "scalar" -> 4
      [] type.kind \in {"vector", "matrix"} -> IF type.column > 2 THEN 16 ELSE 8
      [] type.kind = "descriptor" ->
            Max({TypeAlignment(type.fields[i].type) : i \in 1..Len(type.fields)})
TypeSize(type) ==
    CASE type.kind = "scalar" -> 4
      [] type.kind = "vector" -> 4 * type.column
      [] type.kind = "matrix" -> (IF type.column > 2 THEN 16 ELSE 8) * type.row
      [] type.kind = "descriptor" ->
            RoundUp(RuleEnd(type.fields, Len(type.fields)), TypeAlignment(type))

\* C16: the constructed Struct has every field at the smallest multiple of
\* the field's alignment not below the end of the field before it, the
\* largest field alignment for its alignment and the end of its last field
\* rounded up to its alignment for its size, and no two fields overlap
C16_LayoutRule ==
    IsSome(bstruct) =>
        LET struct == bstruct[1].struct
            descriptor == struct.descriptor
            self == NestedType(descriptor)
        IN /\ \A i \in 1..Len(descriptor) :
                 struct.offsets[descriptor[i].key] = RuleOffset(descriptor, i)
           /\ struct.alignment = TypeAlignment(self)
           /\ struct.size = TypeSize(self)
           /\ \A i, j \in 1..Len(descriptor) :
                 i < j => struct.offsets[descriptor[i].key] + TypeSize(descriptor[i].type)
                             <= struct.offsets[descriptor[j].key]

\* C17 as stated: the struct of {position: vec3, color: vec4, transform:
\* mat4x4} has offsets 0, 16 and 32 and a size of 80 bytes
C17_ScenarioSize80 ==
    (IsSome(bstruct) /\ bstruct[1].struct.descriptor = ScenarioDescriptor) =>
        /\ bstruct[1].struct.offsets = [position |-> 0, color |-> 16, transform |-> 32]
        /\ bstruct[1].struct.size = 80

\* C17: the struct of {position: vec3, color: vec4, transform: mat4x4} has
\* offsets 0, 16 and 32 and a size of 96 bytes, the 64 bytes of the matrix
\* following offset 32
C17_ScenarioSize96 ==
    (IsSome(bstruct) /\ bstruct[1].struct.descriptor = ScenarioDescriptor) =>
        /\ bstruct[1].struct.offsets = [position |-> 0, color |-> 16, transform |-> 32]
        /\ bstruct[1].struct.size = 96
        /\ bstruct[1].struct.alignment = 16

\* the struct of the scenario descriptor has been constructed, with the
\* default values
C17_Witness ==
    /\ IsSome(bstruct)
    /\ bstruct[1].struct.descriptor = ScenarioDescriptor
    /\ bstruct[1].struct.data = GetDefaultValue(ScenarioDescriptor)
    /\ Len(bstruct[1].view.buffer) = bstruct[1].struct.size

\* the alignment and the declared size of an appended value
AppendedAlignment(value) ==
    IF value.kind = "number" THEN 4 ELSE GetAlignment(value)
AppendedSize(value) ==
    IF value.kind = "number" THEN 4 ELSE GetSize(value)

\* the bytes of a value written at an offset of an empty view
BytesOf(value, offset) ==
    IF value.kind = "number"
    THEN SetNumber(StructedViewNew(ScratchBytes, TRUE), value.encoding, offset, value.v).view.buffer
    ELSE WriteStructedView(StructedViewNew(ScratchBytes, TRUE), value, offset).view.buffer

\* C18: every append(offset, v) has written v at the smallest multiple of
\* v's alignment not below offset and has returned the padding plus v's
\* declared size
C18_AppendAlignsAndReturnsSize ==
    \A n \in 1..Len(scratch.log) :
        LET call == scratch.log[n]
            placed == RoundUp(call.offset, AppendedAlignment(call.value))
        IN /\ call.ret = placed - call.offset + AppendedSize(call.value)
           /\ \A i \in (placed + 1)..(placed + AppendedSize(call.value)) :
                 i <= ScratchBytes => scratch.view.buffer[i] = BytesOf(call.value, placed)[i]

----------------------------------------------------------------------------
(* Properties of the normalized byte writers *)

Abs(x) == IF x >= 0 THEN x ELSE -x

\* the signed integer a byte holds
AsInt8(byte) == IF byte >= 128 THEN byte - 256 ELSE byte

\* the bytes the last writer call has written
WrittenBytes == SubSeq(verticesBuffer, 1, lastCall.ret[1])

SnormWriters == {"setNormalizedSignedByte", "setNormalizedSignedByteArray"}
UnormWriters == {"setNormalizedUnsignedByte", "setNormalizedUnsignedByteArray"}

\* C19: a byte the snorm8 writers wrote for f in [-1, 1], decoded as
\* max(v / 127, -1), is within 1/127 of f:  |d - k/Grid| <= 1/127 with
\* d = v/127 is |v * Grid - 127 * k| <= Grid
C19_Snorm8Within1Over127 ==
    lastCall.op \in SnormWriters =>
        \A i \in 1..Len(WrittenBytes) :
            LET v == AsInt8(WrittenBytes[i])
                decoded127 == IF v < -127 THEN -127 ELSE v
            IN Abs(decoded127 * Grid - 127 * floatInput) <= Grid

\* C20: a byte the unorm8 writers wrote for f in [0, 1], decoded as
\* v / 255, is within 1/255 of f:  |v * Grid - 255 * k| <= Grid
C20_Unorm8Within1Over255 ==
    (lastCall.op \in UnormWriters /\ floatInput >= 0) =>
        \A i \in 1..Len(WrittenBytes) :
            Abs(WrittenBytes[i] * Grid - 255 * floatInput) <= Grid

\* the unorm8 array writer has written two bytes for a number strictly
\* between two byte values, and the decoded value is below the number
C20_Witness ==
    /\ lastCall.op = "setNormalizedUnsignedByteArray"
    /\ floatInput > 0 /\ floatInput < Grid
    /\ verticesBuffer[1] = verticesBuffer[2]
    /\ verticesBuffer[1] * Grid < 255 * floatInput
    /\ (verticesBuffer[1] + 1) * Grid > 255 * floatInput

----------------------------------------------------------------------------
(* Properties of VertexArray *)

\* C21: a VertexArray constructed with indices of maximum m holds them as
\* uint16 exactly when m <= 0xFFFF and as uint32 otherwise, and the
\* construction throws a RangeError when some index is >= the vertex count
C21_IndexWidthAndRange ==
    (IsSome(vertexArray) /\ IsSome(vaInput.indices)) =>
        LET indices == vaInput.indices[1]
            va == vertexArray[1]
        IN /\ (\E i \in DOMAIN indices : indices[i] >= VertexCount(vaInput))
                => (va.err = IndexOutOfRange /\ lastCall.result = IndexOutOfRange)
           /\ (va.err = OK /\ indices # <<>>) =>
                /\ IsSome(va.indices)
                /\ va.indices[1].type = "uint16" <=> Max(Range(indices)) <= 65535
                /\ va.indices[1].type = "uint32" <=> Max(Range(indices)) > 65535
                /\ va.indices[1].data = indices

\* an array of 65537 vertices has been constructed with the indices
\* 65535 and 65536, held as uint32
C21_Witness ==
    /\ IsSome(vertexArray) /\ vertexArray[1].err = OK
    /\ vaInput.indices = Some(<<65535, 65536>>)
    /\ vertexArray[1].indices[1].type = "uint32"

RECURSIVE LocationsOf(_)
LocationsOf(buffers) ==
    IF buffers = <<>> THEN <<>>
    ELSE [j \in DOMAIN buffers[1].attributes |-> buffers[1].attributes[j].shaderLocation]
         \o LocationsOf(Tail(buffers))

\* the i-th to last properties of a descriptor that are asked for and
\* have a format, in declaration order
Included(descriptor, properties) ==
    SelectSeq(descriptor, LAMBDA a : /\ a.format # "undefined"
                                     /\ (IsSome(properties) => a.key \in Range(properties[1])))

\* C23: getStrideAndAttributes gives the included attributes, in
\* declaration order, the locations start, start + 1, ... and returns
\* nextLocation = start + their number; the vertex buffers of a Pipeline
\* made from several descriptors have the locations 0..n-1, each once
C23_ShaderLocationsGapFree ==
    /\ lastCall.op = "getStrideAndAttributes" =>
            LET start == lastCall.cached[1].startLocation
                included == Included(vertexArray[1].descriptor, lastCall.cached[1].properties)
                r == lastCall.ret[1]
            IN /\ Len(r.attributes) = Len(included)
               /\ \A j \in DOMAIN r.attributes :
                    /\ r.attributes[j].key = included[j].key
                    /\ r.attributes[j].shaderLocation = start + j - 1
               /\ r.nextLocation = start + Len(included)
    /\ lastCall.op = "new Pipeline" =>
            LET locations == LocationsOf(lastCall.ret[1])
            IN /\ \A j \in DOMAIN locations : locations[j] = j - 1
               /\ Len(lastCall.ret[1]) = Len(lastCall.cached[1])

\* a pipeline has been made from two descriptors of two attributes each:
\* its second vertex buffer has the locations 2 and 3
C23_Witness ==
    /\ lastCall.op = "new Pipeline"
    /\ Len(lastCall.ret[1]) = 2
    /\ LocationsOf(<<lastCall.ret[1][2]>>) = <<2, 3>>

\* C25: the construction of a Struct or of a VertexArray from a
\* descriptor with a field of an unrecognized type throws, with and
\* without initial data
C25_UnknownTypeRejected ==
    /\ (lastCall.op = "BufferedStruct" /\ DefaultValueThrows(structInput.descriptor))
            => lastCall.result # OK
    /\ (lastCall.op = "new VertexArray"
            /\ \E i \in DOMAIN vaInput.descriptor :
                    /\ vaInput.descriptor[i].format # "undefined"
                    /\ ~Recognized(vaInput.descriptor[i].format))
            => lastCall.result # OK

----------------------------------------------------------------------------
(* Properties of the registered layouts of a VertexArray *)

LayoutIds(va) == {va.registeredViews[j].layout.id : j \in DOMAIN va.registeredViews}

\* the call just made was getRegisteredLayout and it returned a layout
GotRegisteredLayout ==
    /\ lastCall.op = "getRegisteredLayout"
    /\ lastCall.result = OK

\* C28: getRegisteredLayout(key) returns the layout object cached under
\* the key, whatever attribute names it is given, and builds a new object
\* only when the key is not registered; a registered key keeps its object
\* in every step, and unregisterView(key) is what removes it
C28_RegisteredLayoutIsCached ==
    /\ [](GotRegisteredLayout =>
            LET before == lastCall.cached[1].before
                key == lastCall.cached[1].args.key
            IN /\ key \in RegisteredKeys(vertexArray[1])
               /\ RegisteredLayout(vertexArray[1], key).id = lastCall.ret[1].id
               /\ IF key \in RegisteredKeys(before)
                  THEN /\ lastCall.ret[1].id = RegisteredLayout(before, key).id
                       /\ vertexArray[1] = before
                  ELSE lastCall.ret[1].id \notin LayoutIds(before)
                       /\ lastCall.ret[1].id > before.objects)
    /\ [][IsSome(vertexArray) =>
            \A key \in RegisteredKeys(vertexArray[1]) :
                \/ /\ key \in RegisteredKeys(vertexArray'[1])
                   /\ RegisteredLayout(vertexArray'[1], key).id
                        = RegisteredLayout(vertexArray[1], key).id
                \/ /\ key \notin RegisteredKeys(vertexArray'[1])
                   /\ lastCall'.op = "unregisterView"
                   /\ lastCall'.cached[1].args.key = key]_vars

\* a call with a registered key and other attribute names than the ones
\* the cached layout was built from returned the cached object
C28_Witness ==
    /\ GotRegisteredLayout
    /\ lastCall.cached[1].args.key \in RegisteredKeys(lastCall.cached[1].before)
    /\ lastCall.cached[1].args.attributeNames = <<"color">>
    /\ Len(lastCall.ret[1].vertices[1].attributes) = 2
    /\ lastCall.ret[1].id
        = RegisteredLayout(vertexArray[1], lastCall.cached[1].args.key).id
    /\ lastCall.ret[1].id > Len(PositionColor) + 1

\* do the registered layouts that include the i-th property hold, at the
\* position of the vertex, the encoding of the value: writing the value
\* there again changes no byte
HoldsEncoded(va, index, value, i) ==
    \A j \in DOMAIN va.registeredViews :
    \A b \in DOMAIN va.registeredViews[j].layout.vertices :
        LET buffer == va.registeredViews[j].layout.vertices[b]
            attribute == AttributeOf(buffer.attributes, va.descriptor[i].key)
        IN IsSome(attribute) =>
            WriteVertexProperty(buffer.view, index * buffer.stride + attribute[1].offset,
                                va.descriptor[i].format, value[i]).view.buffer
            = buffer.view.buffer

\* the call just made was set(index, value) and it returned
VertexWasSet == lastCall.op = "set" /\ lastCall.result = OK

----------------------------------------------------------------------------
(* Properties of the named registries *)

\* C24: in each named registry, registering a label that is present
\* throws and leaves every entry as it was; looking up a label that is
\* not registered throws; a registration that succeeds puts exactly the
\* registered wrapper under the label, where a look-up finds it
C24_RegistryContract ==
    lastCall.op \in {"register", "create", "get"} =>
        LET class == lastCall.device
            label == lastCall.cached[1].label
            before == lastCall.cached[1].before
        IN /\ (lastCall.op \in {"register", "create"} /\ label \in DOMAIN before[class]) =>
                /\ lastCall.result # OK
                /\ registry = before
           /\ (lastCall.op \in {"register", "create"} /\ lastCall.result = OK) =>
                /\ label \in DOMAIN registry[class]
                /\ lastCall.op = "register" => registry[class][label] \in OwnWrappers(class)
                /\ lastCall.op = "create" =>
                        registry[class][label] = Wrapper(class, registry.objects)
                /\ \A c \in Classes : \A l \in DOMAIN before[c] : registry[c][l] = before[c][l]
                /\ GetEntry(class, label) = Some(registry[class][label])
           /\ (lastCall.op = "get" /\ label \notin DOMAIN before[class]) => lastCall.result # OK
           /\ (lastCall.op = "get" /\ label \in DOMAIN before[class]) =>
                /\ lastCall.result = OK
                /\ lastCall.ret = Some(before[class][label])

\* a look-up has returned a sampler the application registered itself,
\* after a wrapper was created by a registry
C24_Witness ==
    /\ lastCall.op = "get" /\ lastCall.result = OK
    /\ lastCall.device = "Sampler"
    /\ lastCall.ret = Some(Wrapper("Sampler", 10))
    /\ registry.objects > 0

----------------------------------------------------------------------------
(* Properties of the frame loop *)

FrameSteps == <<"callback", "drain", "render">>

IsPrefix(s, t) == Len(s) <= Len(t) /\ s = SubSeq(t, 1, Len(s))

\* C10: a frame closure runs the application callback, then the drain of
\* the destruction queue, then the flush, each once and in this order
C10_CallbackDrainRender ==
    /\ IsPrefix(frameTrace, FrameSteps)
    /\ pc = 0 /\ lastCall.op = "frame" => frameTrace = FrameSteps

\* a frame closure has run to its end, flushed a pass the callback had
\* described, and requested the next frame
C10_Witness ==
    /\ pc = 0
    /\ lastCall = Call("frame", OK)
    /\ frameTrace = FrameSteps
    /\ loopId \in rafPending
    /\ beginSeq = 0 /\ viewGpu[<<"fullscreen-triangle", "vertices">>] # None

StatementThrows ==
    /\ lastCall' # lastCall
    /\ lastCall'.result # OK
    /\ \/ InCallback /\ lastCall'.op = "callback"
       \/ AtStatement("drain") /\ lastCall'.op = "drain"
       \/ AtStatement("render") /\ lastCall'.op = "render"

\* C27: when the application callback, the drain or render() throws, the
\* closure ends there with the error and requests no animation frame
C27_ThrowEndsTheLoop ==
    [][StatementThrows =>
          /\ pc' = 0
          /\ rafPending' = rafPending
          /\ loopId' = loopId]_vars

\* render() threw in a frame of an installed loop and no request is pending
C27_Witness ==
    /\ pc = 0
    /\ loop
    /\ lastCall.op = "render" /\ lastCall.result # OK
    /\ frameTrace = FrameSteps
    /\ rafPending = {}

\* the bytes that encode the field values a struct holds, each field at
\* its offset in a buffer of the struct's size
EncodingOf(struct) ==
    WriteFields(StructedViewNew(struct.size, FALSE), struct, 0, 1).view.buffer

\* C36: at every point after construction the CPU-side byte buffer of a
\* BufferedStruct equals the encoding of the field values it holds at
\* their offsets, initial data given to the constructor included
C36_BufferEncodesFields ==
    (IsSome(bstruct) /\ bstruct[1].struct.size # NaN) =>
        bstruct[1].view.buffer = EncodingOf(bstruct[1].struct)

\* the half of C36 about set(): the buffer of a BufferedStruct made
\* without initial data encodes the field values it holds
C36_BufferFollowsSet ==
    (IsSome(bstruct) /\ bstruct[1].struct.size # NaN /\ structInput.data = "default") =>
        bstruct[1].view.buffer = EncodingOf(bstruct[1].struct)

----------------------------------------------------------------------------
(* Properties of the cached device object of a BindGroup *)

GotBindGroup == lastCall.op = "getGPUBindGroup" /\ lastCall.result = OK

C32_WitnessResolvedAgain ==
    /\ GotBindGroup
    /\ ~IsSome(lastCall.cached)
    /\ DestroyRequested # {}
    /\ lastCall.ret[1].handles = {tex["tex"].textureView}

----------------------------------------------------------------------------
(* Properties of the device binding of the wrappers *)

GetOps ==
    {"getGPUTexture", "getGPUSampler", "getGPUShaderModule", "getRenderPipeline",
     "getGPUBindGroupLayout", "getGPUBindGroup", "getGPUBuffer"}

\* C9: a wrapper whose device object exists for one device throws a
\* device-conflict error when asked for another device, and returns the
\* cached object when asked again for the same device
C9_DeviceBindingExclusive ==
    (lastCall.op \in GetOps /\ IsSome(lastCall.cached)) =>
        IF lastCall.cached[1].device = lastCall.device
        THEN lastCall.result = OK /\ lastCall.ret = lastCall.cached
        ELSE lastCall.result \in {DeviceConflictTexture, DeviceConflictBuffer}

----------------------------------------------------------------------------
(* Properties of GestureTarget *)

\* C40: after any sequence of pointerdown, pointermove, pointerup and
\* pointercancel events, a pointerdown for a pointer whose pointerup was
\* never delivered included, alivePointerCount equals the number of entries
\* of the pointers map
C40_CountEqualsMapSize ==
    gestureTarget.alivePointerCount = Len(gestureTarget.pointers)

\* the counter is never below the number of entries of the map
C40_CountAtLeastMapSize ==
    gestureTarget.alivePointerCount >= Len(gestureTarget.pointers)

\* a two-pointer gesture holds two different PointerState objects of two
\* different pointers, both in the map when the gesture was made
C40_TwoGestureFromTracked ==
    (IsSome(gestureTarget.gesture) /\ gestureTarget.gesture[1].type = "two") =>
        /\ gestureTarget.gesture[1].pointers[1].id # gestureTarget.gesture[1].pointers[2].id
        /\ lastCall.op = "pointerdown" =>
              \A i \in 1..2 : \E j \in 1..Len(gestureTarget.pointers) :
                  gestureTarget.pointers[j].obj = gestureTarget.gesture[1].pointers[i].obj

====
